---- MODULE Spec2Model ----
(***************************************************************************)
(* Case / message domain service layer of the conflict-management backend: *)
(* CaseService (case lifecycle, role based access guard), MessageService   *)
(* (read state of messages), their repositories and the Case and Message   *)
(* schemas, as a state machine over the stored Case and Message documents. *)
(* The logout of the client, panelist and admin auth contexts of the front *)
(* end is a separate state machine over the browser session.               *)
(***************************************************************************)
EXTENDS Integers, Sequences, FiniteSets

\* ------------------------------------------------------------------ bounds
\* longest assignedPanelists list the model lets a case grow to
MaxEntries == 2
\* longest panelistIds argument of one assignPanelists call
MaxIds == 2
\* largest total and submitted a payload carries in resolutionProgress
MaxProgress == 1
\* last reading of the clock at which a message is still written
MaxClock == 3

\* ------------------------------------------------------------ value domains
Null == "null"
Undef == "undefined"

\* _id of the one Case document the store can hold
CaseIds == {"k1"}
ClientIds == {"c1", "c2"}
\* the caseworker a case is assigned to (adminId of assignCase)
AdminIds == {"a2"}
\* the admin whose request an assignment is (assignedBy)
ActingAdmins == {"a1"}
PanelistIds == {"P1", "P2"}

\* Case.js: enum of status, in lifecycle order
Statuses == <<"open", "assigned", "panel_assigned", "in_progress", "resolved", "closed">>
StatusSet == {Statuses[i] : i \in 1..Len(Statuses)}

\* the user contexts handed to the services by the authentication boundary
Ctx(id, role, pid) == [id |-> id, role |-> role, panelistId |-> pid]
Users ==
  { Ctx("c1", "client", Undef), Ctx("c2", "client", Undef),
    Ctx("a1", "admin", Undef),
    Ctx("u1", "panelist", "P1"),
    Ctx("u3", "panelist", Undef),
    Ctx("g1", "caseworker", Undef) }

\* ------------------------------------------------------- mongoose conversions
\* populate(...).lean() replaces a stored ObjectId by the referenced plain
\* object; every referenced User / Panelist document is taken to exist
PopulatedDocs ==
  { "doc_c1", "doc_c2", "doc_a1", "doc_a2", "doc_P1", "doc_P2", "doc_P3" }
Populate(id) ==
  CASE id = "c1" -> "doc_c1" [] id = "c2" -> "doc_c2"
    [] id = "a1" -> "doc_a1" [] id = "a2" -> "doc_a2"
    [] id = "P1" -> "doc_P1" [] id = "P2" -> "doc_P2" [] id = "P3" -> "doc_P3"
    [] OTHER -> id

\* x.toString(): an ObjectId or string gives its hex string, a plain object
\* gives "[object Object]"
toString(x) == IF x \in PopulatedDocs THEN "[object Object]" ELSE x

\* ------------------------------------------------------------ Case documents
PopulateEntry(e) ==
  [ e EXCEPT !.panelist = Populate(e.panelist), !.assignedBy = Populate(e.assignedBy) ]

\* CaseRepository.findByIdWithDetails: populated, lean copy of the document
findByIdWithDetails(c) ==
  [ c EXCEPT !.createdBy = Populate(c.createdBy),
             !.assignedTo = Populate(c.assignedTo),
             !.assignedPanelists = [ i \in 1..Len(c.assignedPanelists) |->
                                       PopulateEntry(c.assignedPanelists[i]) ] ]

\* ------------------------------------------------------------- access guard
\* Array.prototype.some over assignedPanelists with the guard's predicate
IsPanelist(c, user) ==
  \E i \in 1..Len(c.assignedPanelists) :
    /\ toString(c.assignedPanelists[i].panelist) = toString(user.panelistId)
    /\ c.assignedPanelists[i].status = "active"

\* variant of the guard without the client's ownership test
CaseService_checkCaseAccess_noOwnerTest(c, user) ==
  IF user.role = "admin" THEN "allow"
  ELSE IF user.role = "panelist"
    THEN IF Len(c.assignedPanelists) > 0 /\ user.panelistId = Undef THEN "TypeError"
         ELSE IF IsPanelist(c, user) THEN "allow" ELSE "Forbidden"
  ELSE "allow"

\* variant of the guard that applies the ownership test to every role
CaseService_checkCaseAccess_ownerOnly(c, user) ==
  IF toString(c.createdBy) # toString(user.id) THEN "Forbidden" ELSE "allow"

\* CaseService._checkCaseAccess: "allow" for return true, "Forbidden" for the
\* 403 error, "TypeError" for user.panelistId.toString() on undefined
CaseService_checkCaseAccess(c, user) ==
  IF user.role = "admin" THEN "allow"
  ELSE IF user.role = "client" /\ toString(c.createdBy) # toString(user.id) THEN "Forbidden"
  ELSE IF user.role = "panelist"
    THEN IF Len(c.assignedPanelists) > 0 /\ user.panelistId = Undef THEN "TypeError"
         ELSE IF IsPanelist(c, user) THEN "allow" ELSE "Forbidden"
  ELSE "allow"

\* MessageService._checkCaseAccess (assignedPanelists?.some)
MessageService_checkCaseAccess(c, user) ==
  IF user.role = "admin" THEN "allow"
  ELSE IF user.role = "client" /\ toString(c.createdBy) # toString(user.id) THEN "Forbidden"
  ELSE IF user.role = "panelist"
    THEN IF Len(c.assignedPanelists) > 0 /\ user.panelistId = Undef THEN "TypeError"
         ELSE IF IsPanelist(c, user) THEN "allow" ELSE "Forbidden"
  ELSE "allow"

\* ------------------------------------------------------------ update data
\* Case.js: resolutionProgress, with the schema defaults of total and submitted
DefaultProgress == [total |-> 0, submitted |-> 0]
\* the resolutionProgress objects a payload carries
ProgressValues == [total : 0..MaxProgress, submitted : 0..MaxProgress]

\* CaseService.updateCase: restrictedFields
restrictedFields == {"status", "assignedTo", "assignedPanelists", "priority"}

\* an updateData object: the keys it has, and their values (Undef / <<>> for
\* a key it does not have)
MkPatch(fs, cb, s, p, a, ap) ==
  [ fields |-> fs, createdBy |-> cb, status |-> s, priority |-> p,
    assignedTo |-> a, assignedPanelists |-> ap, resolutionProgress |-> DefaultProgress ]
EmptyPatch == MkPatch({}, Undef, Undef, Undef, Undef, <<>>)
CreatedByPatch(u) == [EmptyPatch EXCEPT !.fields = {"createdBy"}, !.createdBy = u]
StatusPatch(s) == [EmptyPatch EXCEPT !.fields = {"status"}, !.status = s]
PriorityPatch(p) == [EmptyPatch EXCEPT !.fields = {"priority"}, !.priority = p]
AssignedToPatch(a) == [EmptyPatch EXCEPT !.fields = {"assignedTo"}, !.assignedTo = a]
PanelPatch(ap) ==
  [EmptyPatch EXCEPT !.fields = {"assignedPanelists"}, !.assignedPanelists = ap]
ProgressPatch(rp) ==
  [EmptyPatch EXCEPT !.fields = {"resolutionProgress"}, !.resolutionProgress = rp]
WithCreatedBy(p, u) == [p EXCEPT !.fields = @ \cup {"createdBy"}, !.createdBy = u]

\* the lists a caller sends as assignedPanelists: none at all, or the stored
\* list with one active entry set to removed
PanelLists(cur) ==
  {<<>>} \cup
  { [cur EXCEPT ![i].status = "removed"] :
      i \in {j \in 1..Len(cur) : cur[j].status = "active"} }

\* the updateData objects an admin sends, given the stored list
AdminPatches(cur) ==
  {StatusPatch(s) : s \in StatusSet} \cup {PanelPatch(ap) : ap \in PanelLists(cur)}

\* the updateData objects the other callers send, given the stored list
UserPatches(cur) ==
  { StatusPatch("closed"), PriorityPatch("high"),
    AssignedToPatch(Null), AssignedToPatch("a1"),
    CreatedByPatch("c2"), WithCreatedBy(StatusPatch("closed"), "c2") }
    \cup {PanelPatch(ap) : ap \in PanelLists(cur)}

Patches(cur, user) == IF user.role = "admin" THEN AdminPatches(cur) ELSE UserPatches(cur)

\* JavaScript truthiness of updateData[field]: null and undefined are falsy,
\* a non-empty string and any array (the empty one too) are truthy
Truthy(patch, f) ==
  /\ f \in patch.fields
  /\ CASE f = "assignedPanelists" -> TRUE
       [] f = "createdBy" -> patch.createdBy \notin {Null, Undef}
       [] f = "status" -> patch.status \notin {Null, Undef}
       [] f = "priority" -> patch.priority \notin {Null, Undef}
       [] f = "assignedTo" -> patch.assignedTo \notin {Null, Undef}
       [] f = "resolutionProgress" -> TRUE

\* delete updateData[field] for every field of fs
DeleteFields(patch, fs) ==
  [ fields |-> patch.fields \ fs,
    createdBy |-> IF "createdBy" \in fs THEN Undef ELSE patch.createdBy,
    status |-> IF "status" \in fs THEN Undef ELSE patch.status,
    priority |-> IF "priority" \in fs THEN Undef ELSE patch.priority,
    assignedTo |-> IF "assignedTo" \in fs THEN Undef ELSE patch.assignedTo,
    assignedPanelists |-> IF "assignedPanelists" \in fs THEN <<>> ELSE patch.assignedPanelists,
    resolutionProgress |-> IF "resolutionProgress" \in fs
                             THEN DefaultProgress ELSE patch.resolutionProgress ]

\* variant of the filter that forgets status
StripRestricted_keepsStatus(patch, user) ==
  IF user.role # "admin"
    THEN DeleteFields(patch, {f \in restrictedFields \ {"status"} : Truthy(patch, f)})
    ELSE patch

\* CaseService.updateCase: the restricted-field filter applied to updateData
StripRestricted(patch, user) ==
  IF user.role # "admin"
    THEN DeleteFields(patch, {f \in restrictedFields : Truthy(patch, f)})
    ELSE patch

\* variant of the update that puts the keys of updateData over the schema
\* defaults instead of over the stored document
findByIdAndUpdate_overDefaults(c, patch) ==
  [ createdBy |-> IF "createdBy" \in patch.fields THEN patch.createdBy ELSE Null,
    status |-> IF "status" \in patch.fields THEN patch.status ELSE "open",
    priority |-> IF "priority" \in patch.fields THEN patch.priority ELSE "medium",
    assignedTo |-> IF "assignedTo" \in patch.fields THEN patch.assignedTo ELSE Null,
    assignedPanelists |-> IF "assignedPanelists" \in patch.fields
                            THEN patch.assignedPanelists ELSE <<>>,
    resolutionProgress |-> IF "resolutionProgress" \in patch.fields
                             THEN patch.resolutionProgress ELSE DefaultProgress,
    createdAt |-> c.createdAt ]

\* Case.findByIdAndUpdate(id, updateData, {new, runValidators}): $set of
\* every key of updateData (every value of the model passes the validators)
findByIdAndUpdate(c, patch) ==
  [ createdBy |-> IF "createdBy" \in patch.fields THEN patch.createdBy ELSE c.createdBy,
    status |-> IF "status" \in patch.fields THEN patch.status ELSE c.status,
    priority |-> IF "priority" \in patch.fields THEN patch.priority ELSE c.priority,
    assignedTo |-> IF "assignedTo" \in patch.fields THEN patch.assignedTo ELSE c.assignedTo,
    assignedPanelists |-> IF "assignedPanelists" \in patch.fields
                            THEN patch.assignedPanelists ELSE c.assignedPanelists,
    resolutionProgress |-> IF "resolutionProgress" \in patch.fields
                             THEN patch.resolutionProgress ELSE c.resolutionProgress,
    createdAt |-> c.createdAt ]

\* variant of the map that builds the entries in reverse order
newPanelists_reversed(panelistIds, assignedBy) ==
  [ i \in 1..Len(panelistIds) |->
      [ panelist |-> panelistIds[Len(panelistIds) + 1 - i], assignedBy |-> assignedBy,
        status |-> "active" ] ]

\* variant in which the keys of caseData come last: {createdBy: userId,
\* status: 'open', ...caseData}
NewCase_payloadLast(caseData, userId, t) ==
  [ createdBy |-> IF "createdBy" \in caseData.fields THEN caseData.createdBy ELSE userId,
    status |-> IF "status" \in caseData.fields THEN caseData.status ELSE "open",
    priority |-> IF "priority" \in caseData.fields THEN caseData.priority ELSE "medium",
    assignedTo |-> IF "assignedTo" \in caseData.fields THEN caseData.assignedTo ELSE Null,
    assignedPanelists |-> IF "assignedPanelists" \in caseData.fields
                            THEN caseData.assignedPanelists ELSE <<>>,
    resolutionProgress |-> IF "resolutionProgress" \in caseData.fields
                             THEN caseData.resolutionProgress ELSE DefaultProgress,
    createdAt |-> t ]

\* CaseService.createCase: Case.create({...caseData, createdBy: userId,
\* status: 'open'}): the keys of caseData over the schema defaults, createdBy
\* and status overridden, createdAt the time t of the call
NewCase(caseData, userId, t) ==
  [ createdBy |-> userId,
    status |-> "open",
    priority |-> IF "priority" \in caseData.fields THEN caseData.priority ELSE "medium",
    assignedTo |-> IF "assignedTo" \in caseData.fields THEN caseData.assignedTo ELSE Null,
    assignedPanelists |-> IF "assignedPanelists" \in caseData.fields
                            THEN caseData.assignedPanelists ELSE <<>>,
    resolutionProgress |-> IF "resolutionProgress" \in caseData.fields
                             THEN caseData.resolutionProgress ELSE DefaultProgress,
    createdAt |-> t ]

\* the caseData objects clients send: the plain one, and one that tries to
\* set createdBy and status itself
CaseDatas == {EmptyPatch, WithCreatedBy(StatusPatch("closed"), "c2")}

\* CaseService.assignPanelists: panelistIds.map(...)
newPanelists(panelistIds, assignedBy) ==
  [ i \in 1..Len(panelistIds) |->
      [ panelist |-> panelistIds[i], assignedBy |-> assignedBy, status |-> "active" ] ]

\* variant of the in-memory changes that puts the new entries in place of
\* the list instead of pushing them
pushPanelists_replace(caseData, panelistIds, assignedBy) ==
  [ caseData EXCEPT !.assignedPanelists = newPanelists(panelistIds, assignedBy),
                    !.status = "panel_assigned" ]

\* CaseService.assignPanelists: caseData.assignedPanelists.push(...newPanelists)
\* and caseData.status = 'panel_assigned', on the document that was read
pushPanelists(caseData, panelistIds, assignedBy) ==
  [ caseData EXCEPT !.assignedPanelists = @ \o newPanelists(panelistIds, assignedBy),
                    !.status = "panel_assigned" ]

\* sequences over S of length 0..n
SeqsUpTo(S, n) == UNION { [1..m -> S] : m \in 0..n }

\* ------------------------------------------------------------------- state
VARIABLES
  cases,    \* the Case collection: a function from the _id of each stored document
  last,     \* the last CaseService call: its arguments, its outcome and what it returned
  step,     \* number of calls of the lifecycle walk-through made so far (0 outside it)
  messages, \* the Message collection: a function from the _id of each stored document
  mlast,    \* the last MessageService call: its arguments, its outcome and what it returned
  now,      \* the clock Date.now() reads
  calls,    \* the requests in flight at once: for each, its arguments, the step it
            \* is at and the document it has read
  base,     \* the two collections as they were when the requests in flight began
  session   \* the browser: the user each auth context holds in memory, the keys
            \* in sessionStorage, and where each context's logout stands

vars == <<cases, last, step, messages, mlast, now, calls, base, session>>

Exists(k) == k \in DOMAIN cases

NoUser == Ctx(Null, Undef, Undef)

\* the pagination object of a call that returns none
NoPagination == [total |-> 0, page |-> 0, limit |-> 0, pages |-> 0]
\* the query parameters of a call that takes none
NoQuery == [status |-> Undef, sortOrder |-> Undef]

\* the record of a call; data holds the returned document, if one is returned
Call(op, k, user, outcome, patch, adminId, ids, data) ==
  [ op |-> op, caseId |-> k, user |-> user, outcome |-> outcome,
    patch |-> patch, adminId |-> adminId, panelistIds |-> ids, data |-> data,
    query |-> NoQuery, list |-> <<>>, pagination |-> NoPagination, stats |-> <<>> ]

\* the record of a call that returns a page of documents (their ids, in the
\* order returned) and a pagination object
ListCall(op, k, user, outcome, query, list, pagination) ==
  [ Call(op, k, user, outcome, EmptyPatch, Null, <<>>, <<>>) EXCEPT
      !.query = query, !.list = list, !.pagination = pagination ]

\* the record of a MessageService call; count and list hold what it returned
NoSender == [userType |-> Undef, userId |-> Undef, panelistId |-> Undef, name |-> Undef]
NoPayload == [case |-> Null, recipients |-> <<>>, fields |-> {}, sender |-> NoSender]

\* a call with a user context, a payload and a paginated result
MCallBy(op, m, user, outcome, payload, ids, count, list, pagination, data) ==
  [ op |-> op, msgId |-> m, userId |-> user.id, outcome |-> outcome,
    messageIds |-> ids, count |-> count, list |-> list, data |-> data,
    user |-> user, payload |-> payload, pagination |-> pagination ]

\* a call that is given a userId only
MCall(op, m, userId, outcome, ids, count, list, data) ==
  MCallBy(op, m, Ctx(userId, Undef, Undef), outcome, NoPayload, ids, count, list,
          NoPagination, data)

\* the requests that run at once
Procs == {"A", "B"}

\* a request: op and its arguments, pc the step it is at, local the document
\* its read returned (none before the read), order its rank among the writes
ACall(op, pc, k, who, m, ids, local, order) ==
  [ op |-> op, pc |-> pc, caseId |-> k, who |-> who, msgId |-> m,
    panelistIds |-> ids, local |-> local, order |-> order,
    user |-> NoUser, patch |-> EmptyPatch ]
\* an updateCase request in flight: the user context and the updateData
UCall(k, user, updateData) ==
  [ ACall("updateCase", "find", k, user.id, Null, <<>>, <<>>, 0) EXCEPT
      !.user = user, !.patch = updateData ]
IdleCall == ACall("none", "idle", Null, Null, Null, <<>>, <<>>, 0)

\* the auth contexts of the front end, the user each one logs in, and the
\* sessionStorage keys each one writes
AuthContexts == {"client", "panelist", "admin"}
AuthUser(c) == CASE c = "client" -> "c1" [] c = "panelist" -> "u1" [] c = "admin" -> "a1"
StorageKeys(c) ==
  CASE c = "client" -> {"user_info"}
    [] c = "panelist" -> {"panelistUser", "panelistInfo"}
    [] c = "admin" -> {"admin_user"}

\* nobody is logged in and no logout has been asked for
LoggedOut ==
  [ user |-> [c \in AuthContexts |-> Null],
    storage |-> {},
    pc |-> [c \in AuthContexts |-> "idle"],
    result |-> [c \in AuthContexts |-> "none"] ]

Init ==
  /\ session = LoggedOut
  /\ cases = [k \in {} |-> Null]
  /\ last = Call("none", Null, NoUser, "ok", EmptyPatch, Null, <<>>, <<>>)
  /\ step = 0
  /\ messages = [m \in {} |-> Null]
  /\ mlast = MCall("none", Null, Null, "ok", <<>>, 0, <<>>, <<>>)
  /\ now = 1
  /\ calls = [p \in Procs |-> IdleCall]
  /\ base = [cases |-> cases, messages |-> messages, now |-> now]

Store(k, doc) == [x \in DOMAIN cases \cup {k} |-> IF x = k THEN doc ELSE cases[x]]

\* CaseService.createCase(caseData, userId)
createCase(k, caseData, userId) ==
  /\ ~Exists(k)
  /\ cases' = Store(k, NewCase(caseData, userId, now))
  /\ last' = Call("createCase", k, Ctx(userId, Undef, Undef), "ok", caseData, Null, <<>>,
                  <<NewCase(caseData, userId, now)>>)

\* CaseService.getCaseById(caseId, user)
getCaseById(k, user) ==
  /\ UNCHANGED cases
  /\ IF ~Exists(k)
       THEN last' = Call("getCaseById", k, user, "NotFound", EmptyPatch, Null, <<>>, <<>>)
       ELSE LET caseData == findByIdWithDetails(cases[k])
                access == CaseService_checkCaseAccess(caseData, user)
            IN IF access = "allow"
                 THEN last' = Call("getCaseById", k, user, "ok", EmptyPatch, Null, <<>>,
                                   <<caseData>>)
                 ELSE last' = Call("getCaseById", k, user, access, EmptyPatch, Null, <<>>, <<>>)

\* variant that looks at the caller's role before it looks for the case
updateCase_roleFirst(k, updateData, user) ==
  IF ~Exists(k)
    THEN /\ UNCHANGED cases
         /\ last' = Call("updateCase", k, user,
                         IF user.role = "admin" THEN "NotFound" ELSE "Forbidden",
                         EmptyPatch, Null, <<>>, <<>>)
    ELSE LET access == CaseService_checkCaseAccess(cases[k], user)
             updatedCase == findByIdAndUpdate(cases[k], StripRestricted(updateData, user))
         IN IF access = "allow"
              THEN /\ cases' = Store(k, updatedCase)
                   /\ last' = Call("updateCase", k, user, "ok", updateData, Null, <<>>,
                                   <<updatedCase>>)
              ELSE /\ UNCHANGED cases
                   /\ last' = Call("updateCase", k, user, access, EmptyPatch, Null, <<>>, <<>>)

\* CaseService.updateCase(caseId, updateData, user)
updateCase(k, updateData, user) ==
  IF ~Exists(k)
    THEN /\ UNCHANGED cases
         /\ last' = Call("updateCase", k, user, "NotFound", EmptyPatch, Null, <<>>, <<>>)
    ELSE LET access == CaseService_checkCaseAccess(cases[k], user)
             updatedCase == findByIdAndUpdate(cases[k], StripRestricted(updateData, user))
         IN IF access = "allow"
              THEN /\ cases' = Store(k, updatedCase)
                   /\ last' = Call("updateCase", k, user, "ok", updateData, Null, <<>>,
                                   <<updatedCase>>)
              ELSE /\ UNCHANGED cases
                   /\ last' = Call("updateCase", k, user, access, EmptyPatch, Null, <<>>, <<>>)

\* CaseService.assignCase(caseId, adminId, assignedBy)
assignCase(k, adminId, assignedBy) ==
  IF ~Exists(k)
    THEN /\ UNCHANGED cases
         /\ last' = Call("assignCase", k, Ctx(assignedBy, "admin", Undef), "NotFound",
                         EmptyPatch, adminId, <<>>, <<>>)
    ELSE LET updatedCase ==
               findByIdAndUpdate(cases[k],
                 [EmptyPatch EXCEPT !.fields = {"assignedTo", "status"},
                                    !.assignedTo = adminId, !.status = "assigned"])
         IN /\ cases' = Store(k, updatedCase)
            /\ last' = Call("assignCase", k, Ctx(assignedBy, "admin", Undef), "ok",
                            EmptyPatch, adminId, <<>>, <<updatedCase>>)

\* CaseService.assignPanelists(caseId, panelistIds, assignedBy)
assignPanelists(k, panelistIds, assignedBy) ==
  IF ~Exists(k)
    THEN /\ UNCHANGED cases
         /\ last' = Call("assignPanelists", k, Ctx(assignedBy, "admin", Undef), "NotFound",
                         EmptyPatch, Null, panelistIds, <<>>)
    ELSE LET caseData == pushPanelists(cases[k], panelistIds, assignedBy)
         IN /\ Len(cases[k].assignedPanelists) + Len(panelistIds) <= MaxEntries
            /\ cases' = Store(k, caseData)
            /\ last' = Call("assignPanelists", k, Ctx(assignedBy, "admin", Undef), "ok",
                            EmptyPatch, Null, panelistIds, <<caseData>>)

StoredList(k) == IF Exists(k) THEN cases[k].assignedPanelists ELSE <<>>

\* --------------------------------------------------------- Message documents
MsgIds == {"m1", "m2"}
\* Message.js: a Date field that is null
NoDate == 0
\* the user ids that read messages; c2 is a recipient of none
Readers == {"c1", "u1", "c2"}
\* the recipients arrays of the payloads, by userId; an entry addressed to a
\* panelist without a user account has userId null
RecipientLists == { <<"c1", "u1">>, <<"u1">>, <<Null, "c1">> }
\* a messageData payload: the keys it has besides case and recipients, and
\* the sender block it carries if it has the key sender
MessageData(k, r) == [case |-> k, recipients |-> r, fields |-> {}, sender |-> NoSender]
WithSender(d, block) == [d EXCEPT !.fields = @ \cup {"sender"}, !.sender = block]
\* the name the authentication boundary puts in the context of a user
NameOf(id) ==
  CASE id = "a1" -> "Admin One" [] id = "c1" -> "Client One" [] id = "c2" -> "Client Two"
    [] id = "u1" -> "Panelist One" [] OTHER -> "Someone"
\* a sender block that names the admin a1
ForgedSender ==
  [userType |-> "admin", userId |-> "a1", panelistId |-> Null, name |-> NameOf("a1")]
MessageDatas ==
  { MessageData(k, r) : k \in CaseIds, r \in RecipientLists }
    \cup { WithSender(MessageData(k, <<"u1">>), ForgedSender) : k \in CaseIds }
Senders == {Ctx("a1", "admin", Undef), Ctx("c2", "client", Undef)}
\* the messageIds arrays of bulkMarkAsRead
BulkIdLists == { <<"m1">>, <<"m1", "m2">> }

\* Message.js: a recipients entry with the schema defaults
NewRecipient(u) == [userId |-> u, isRead |-> FALSE, readAt |-> NoDate]

\* MessageService.createMessage: the sender block built from the caller
SenderBlock(sender) ==
  [ userType |-> sender.role, userId |-> sender.id,
    panelistId |-> IF sender.panelistId = Undef THEN Null ELSE sender.panelistId,
    name |-> NameOf(sender.id) ]

\* variant of the document that keeps the sender of a payload that has one
NewMessage_payloadSender(messageData, sender, t) ==
  [ case |-> messageData.case,
    sender |-> IF "sender" \in messageData.fields THEN messageData.sender
               ELSE SenderBlock(sender),
    recipients |-> [ i \in 1..Len(messageData.recipients) |->
                       NewRecipient(messageData.recipients[i]) ],
    isDeleted |-> FALSE,
    createdAt |-> t,
    updatedAt |-> t ]

\* MessageService.createMessage: the document Message.create builds from
\* {...messageData, sender: {...}} at time t; the sender key written after
\* the spread replaces the one of the payload
NewMessage(messageData, sender, t) ==
  [ case |-> messageData.case,
    sender |-> SenderBlock(sender),
    recipients |-> [ i \in 1..Len(messageData.recipients) |->
                       NewRecipient(messageData.recipients[i]) ],
    isDeleted |-> FALSE,
    createdAt |-> t,
    updatedAt |-> t ]

\* variant of the search that takes the first entry, whoever it is for
FindRecipient_first(doc, userId) ==
  IF Len(doc.recipients) = 0 THEN 0 ELSE 1

\* this.recipients.find(r => r.userId && r.userId.toString() ===
\* userId.toString()): the index of the first such entry, 0 for undefined
FindRecipient(doc, userId) ==
  LET hits == { i \in 1..Len(doc.recipients) :
                  /\ doc.recipients[i].userId # Null
                  /\ toString(doc.recipients[i].userId) = toString(userId) }
  IN IF hits = {} THEN 0 ELSE CHOOSE i \in hits : \A j \in hits : i <= j

\* variant of the method that sets isRead and readAt on a read entry too
Message_markAsRead_always(doc, userId, t) ==
  LET i == FindRecipient(doc, userId)
      marked == IF i # 0
                  THEN [doc EXCEPT !.recipients[i].isRead = TRUE, !.recipients[i].readAt = t]
                  ELSE doc
  IN [marked EXCEPT !.updatedAt = t]

\* MessageSchema.methods.markAsRead with the pre('save') hook: the document
\* in memory when save() sends it, at time t
Message_markAsRead(doc, userId, t) ==
  LET i == FindRecipient(doc, userId)
      marked == IF i # 0 /\ ~doc.recipients[i].isRead
                  THEN [doc EXCEPT !.recipients[i].isRead = TRUE, !.recipients[i].readAt = t]
                  ELSE doc
  IN [marked EXCEPT !.updatedAt = t]

\* document.save() of a document that was read as `read` and is now `doc`:
\* $set of the paths modified since the read (recipients.i.isRead,
\* recipients.i.readAt, updatedAt) on the stored document
saveModified(stored, read, doc) ==
  [ stored EXCEPT
      !.recipients = [ i \in 1..Len(stored.recipients) |->
                         IF doc.recipients[i] # read.recipients[i]
                           THEN doc.recipients[i] ELSE stored.recipients[i] ],
      !.updatedAt = doc.updatedAt ]

\* variant of the filter without the isDeleted condition
Unread_deletedToo(doc, userId) ==
  /\ \E i \in 1..Len(doc.recipients) : doc.recipients[i].userId = userId
  /\ \E j \in 1..Len(doc.recipients) : doc.recipients[j].isRead = FALSE

\* the filter {'recipients.userId': userId, 'recipients.isRead': false,
\* isDeleted: false}: each dotted condition is met by some element of the
\* array, not necessarily the same one
Unread(doc, userId) ==
  /\ \E i \in 1..Len(doc.recipients) : doc.recipients[i].userId = userId
  /\ \E j \in 1..Len(doc.recipients) : doc.recipients[j].isRead = FALSE
  /\ doc.isDeleted = FALSE

\* MessageSchema.statics.getUnreadCount on the collection `store`
Message_getUnreadCount(store, userId) ==
  Cardinality({m \in DOMAIN store : Unread(store[m], userId)})

\* sort({createdAt: -1}) of the documents with the ids S
SortByCreatedAtDesc(store, S) ==
  CHOOSE s \in [1..Cardinality(S) -> S] :
    \A i, j \in 1..Cardinality(S) : i < j => store[s[i]].createdAt > store[s[j]].createdAt

DefaultPage == 1
DefaultLimit == 20
Min(a, b) == IF a < b THEN a ELSE b

\* MessageRepository.findUnreadByUser: the ids of the documents it returns
findUnreadByUser(store, userId, page, limit) ==
  LET s == SortByCreatedAtDesc(store, {m \in DOMAIN store : Unread(store[m], userId)})
  IN SubSeq(s, (page - 1) * limit + 1, Min(Len(s), page * limit))

\* MessageRepository.bulkMarkAsRead: updateMany with arrayFilters at time t
MessageRepository_bulkMarkAsRead(store, messageIds, userId, t) ==
  [ m \in DOMAIN store |->
      IF /\ \E n \in 1..Len(messageIds) : messageIds[n] = m
         /\ \E i \in 1..Len(store[m].recipients) : store[m].recipients[i].userId = userId
        THEN [ store[m] EXCEPT
                 !.recipients = [ i \in 1..Len(store[m].recipients) |->
                                    IF store[m].recipients[i].userId = userId
                                      THEN [ store[m].recipients[i] EXCEPT
                                               !.isRead = TRUE, !.readAt = t ]
                                      ELSE store[m].recipients[i] ] ]
        ELSE store[m] ]

\* the _id given to the next document
NewMsgId == IF "m1" \notin DOMAIN messages THEN "m1" ELSE "m2"

\* MessageService.createMessage(messageData, sender)
createMessage(messageData, sender) ==
  IF ~Exists(messageData.case)
    THEN /\ UNCHANGED <<messages, now>>
         /\ mlast' = MCallBy("createMessage", Null, sender, "NotFound", messageData, <<>>, 0,
                             <<>>, NoPagination, <<>>)
    ELSE LET newMessage == NewMessage(messageData, sender, now)
         IN /\ DOMAIN messages # MsgIds
            /\ now <= MaxClock
            /\ messages' = [ m \in DOMAIN messages \cup {NewMsgId} |->
                               IF m = NewMsgId THEN newMessage ELSE messages[m] ]
            /\ now' = now + 1
            /\ mlast' = MCallBy("createMessage", NewMsgId, sender, "ok", messageData, <<>>, 0,
                                <<>>, NoPagination, <<newMessage>>)

\* MessageService.markMessageAsRead(messageId, userId)
markMessageAsRead(m, userId) ==
  IF m \notin DOMAIN messages
    THEN /\ UNCHANGED <<messages, now>>
         /\ mlast' = MCall("markMessageAsRead", m, userId, "NotFound", <<>>, 0, <<>>, <<>>)
    ELSE LET message == saveModified(messages[m], messages[m],
                                     Message_markAsRead(messages[m], userId, now))
         IN /\ now <= MaxClock
            /\ messages' = [messages EXCEPT ![m] = message]
            /\ now' = now + 1
            /\ mlast' = MCall("markMessageAsRead", m, userId, "ok", <<>>, 0, <<>>,
                              <<message>>)

\* MessageService.bulkMarkAsRead(messageIds, userId)
bulkMarkAsRead(messageIds, userId) ==
  /\ now <= MaxClock
  /\ messages' = MessageRepository_bulkMarkAsRead(messages, messageIds, userId, now)
  /\ now' = now + 1
  /\ mlast' = MCall("bulkMarkAsRead", Null, userId, "ok", messageIds, 0, <<>>, <<>>)

\* the users that ask to delete a message
Deleters == {Ctx("a1", "admin", Undef), Ctx("c1", "client", Undef), Ctx("c2", "client", Undef)}

\* variant of the test that lets only the sender through
MayDelete_senderOnly(message, user) ==
  ~(toString(message.sender.userId) # toString(user.id))

\* MessageService.deleteMessage: the negation of its 403 condition
MayDelete(message, user) ==
  ~(user.role # "admin" /\ toString(message.sender.userId) # toString(user.id))

\* MessageRepository.deleteById: findByIdAndUpdate(id, {isDeleted: true})
deleteById(message) == [message EXCEPT !.isDeleted = TRUE]

\* variant that calls hardDeleteById (Message.findByIdAndDelete) instead
deleteMessage_hard(m, user) ==
  /\ UNCHANGED now
  /\ IF m \notin DOMAIN messages
       THEN /\ UNCHANGED messages
            /\ mlast' = MCallBy("deleteMessage", m, user, "NotFound", NoPayload, <<>>, 0, <<>>,
                                NoPagination, <<>>)
       ELSE IF ~MayDelete(messages[m], user)
         THEN /\ UNCHANGED messages
              /\ mlast' = MCallBy("deleteMessage", m, user, "Forbidden", NoPayload, <<>>, 0,
                                  <<>>, NoPagination, <<>>)
         ELSE /\ messages' = [x \in DOMAIN messages \ {m} |-> messages[x]]
              /\ mlast' = MCallBy("deleteMessage", m, user, "ok", NoPayload, <<>>, 0, <<>>,
                                  NoPagination, <<messages[m]>>)

\* MessageService.deleteMessage(messageId, user)
deleteMessage(m, user) ==
  /\ UNCHANGED now
  /\ IF m \notin DOMAIN messages
       THEN /\ UNCHANGED messages
            /\ mlast' = MCallBy("deleteMessage", m, user, "NotFound", NoPayload, <<>>, 0, <<>>,
                                NoPagination, <<>>)
       ELSE IF ~MayDelete(messages[m], user)
         THEN /\ UNCHANGED messages
              /\ mlast' = MCallBy("deleteMessage", m, user, "Forbidden", NoPayload, <<>>, 0,
                                  <<>>, NoPagination, <<>>)
         ELSE /\ messages' = [messages EXCEPT ![m] = deleteById(@)]
              /\ mlast' = MCallBy("deleteMessage", m, user, "ok", NoPayload, <<>>, 0, <<>>,
                                  NoPagination, <<deleteById(messages[m])>>)

\* MessageService.getUnreadCount(userId)
getUnreadCount(userId) ==
  /\ UNCHANGED <<messages, now>>
  /\ mlast' = MCall("getUnreadCount", Null, userId, "ok", <<>>,
                    Message_getUnreadCount(messages, userId), <<>>, <<>>)

\* variant that rounds down
Ceil_floor(total, limit) == total \div limit

\* Math.ceil(total / limit)
Ceil(total, limit) == (total + limit - 1) \div limit

\* the pagination object the list operations return
Pagination(total, page, limit) ==
  [total |-> total, page |-> page, limit |-> limit, pages |-> Ceil(total, limit)]

\* MessageService.getUnreadMessages(userId, page, limit)
getUnreadMessages(userId, page, limit) ==
  /\ UNCHANGED <<messages, now>>
  /\ mlast' = MCallBy("getUnreadMessages", Null, Ctx(userId, Undef, Undef), "ok", NoPayload,
                      <<>>, Message_getUnreadCount(messages, userId),
                      findUnreadByUser(messages, userId, page, limit),
                      Pagination(Message_getUnreadCount(messages, userId), page, limit), <<>>)

\* the filter {case: caseId, isDeleted: false} of findByCase and countByCase
InCase(doc, caseId) == doc.case = caseId /\ doc.isDeleted = FALSE

\* variant that sorts newest first
SortByCreatedAtAsc_newestFirst(store, S) ==
  CHOOSE s \in [1..Cardinality(S) -> S] :
    \A i, j \in 1..Cardinality(S) : i < j => store[s[i]].createdAt > store[s[j]].createdAt

\* sort({createdAt: 1}) of the documents with the ids S
SortByCreatedAtAsc(store, S) ==
  CHOOSE s \in [1..Cardinality(S) -> S] :
    \A i, j \in 1..Cardinality(S) : i < j => store[s[i]].createdAt < store[s[j]].createdAt

\* MessageRepository.findByCase: the ids of the documents it returns
findByCase(store, caseId, page, limit) ==
  LET s == SortByCreatedAtAsc(store, {m \in DOMAIN store : InCase(store[m], caseId)})
  IN SubSeq(s, (page - 1) * limit + 1, Min(Len(s), page * limit))

\* MessageRepository.countByCase
countByCase(store, caseId) ==
  Cardinality({m \in DOMAIN store : InCase(store[m], caseId)})

\* MessageRepository.getRecentMessages: the ids of the documents it returns
MessageRepository_getRecentMessages(store, limit) ==
  LET s == SortByCreatedAtDesc(store, {m \in DOMAIN store : store[m].isDeleted = FALSE})
  IN SubSeq(s, 1, Min(Len(s), limit))

\* MessageService.getRecentMessages(limit)
getRecentMessages(limit) ==
  /\ UNCHANGED <<messages, now>>
  /\ mlast' = MCallBy("getRecentMessages", Null, NoUser, "ok", NoPayload, <<>>, 0,
                      MessageRepository_getRecentMessages(messages, limit),
                      [NoPagination EXCEPT !.limit = limit], <<>>)

\* MessageService.getMessagesByCase(caseId, user, page, limit)
getMessagesByCase(k, user, page, limit) ==
  /\ UNCHANGED cases
  /\ IF ~Exists(k)
       THEN last' = Call("getMessagesByCase", k, user, "NotFound", EmptyPatch, Null, <<>>, <<>>)
       ELSE LET access == MessageService_checkCaseAccess(cases[k], user)
            IN IF access = "allow"
                 THEN last' = ListCall("getMessagesByCase", k, user, "ok", NoQuery,
                                       findByCase(messages, k, page, limit),
                                       Pagination(countByCase(messages, k), page, limit))
                 ELSE last' = Call("getMessagesByCase", k, user, access, EmptyPatch, Null,
                                   <<>>, <<>>)

\* the message calls, on the cases that createCase stored
NextMsg ==
  \/ /\ UNCHANGED <<step, messages, mlast, now, calls, base, session>>
     /\ \E k \in CaseIds : createCase(k, EmptyPatch, "c1")
  \/ /\ UNCHANGED <<cases, last, step, calls, base, session>>
     /\ \/ \E d \in MessageDatas, u \in Senders : createMessage(d, u)
        \/ \E m \in MsgIds, u \in Readers : markMessageAsRead(m, u)
        \/ \E ids \in BulkIdLists, u \in Readers : bulkMarkAsRead(ids, u)
        \/ \E m \in MsgIds, u \in Deleters : deleteMessage(m, u)
        \/ \E u \in Readers : getUnreadCount(u)
        \/ \E u \in Readers : getUnreadMessages(u, DefaultPage, DefaultLimit)

SpecMsg == Init /\ [][NextMsg]_vars

\* any caller makes any one service call
Next ==
  /\ UNCHANGED <<step, messages, mlast, now, calls, base, session>>
  /\ \/ \E k \in CaseIds, d \in CaseDatas, u \in ClientIds : createCase(k, d, u)
     \/ \E k \in CaseIds, u \in Users : getCaseById(k, u)
     \/ \E k \in CaseIds, u \in Users : getMessagesByCase(k, u, DefaultPage, DefaultLimit)
     \/ \E k \in CaseIds, a \in AdminIds, b \in ActingAdmins : assignCase(k, a, b)
     \/ \E k \in CaseIds, b \in ActingAdmins :
          \E ids \in SeqsUpTo(PanelistIds, MaxIds) : assignPanelists(k, ids, b)
     \/ \E k \in CaseIds, u \in Users :
          \E p \in Patches(StoredList(k), u) : updateCase(k, p, u)

Spec == Init /\ [][Next]_vars

\* ------------------------------------------------------ lifecycle walk-through
\* create -> assignCase -> assignPanelists (two ids) -> updateCase by the owner
\* with {status: closed} -> updateCase by an admin with {status: closed}, on one
\* case, with nothing else in between
WalkAdmins == {"a1", "a2"}
WalkPanelists == {"P1", "P2", "P3"}
WalkCase == "k1"

WalkCreate ==
  /\ step = 0
  /\ \E d \in CaseDatas, u \in ClientIds : createCase(WalkCase, d, u)
  /\ step' = 1

WalkAssignCase ==
  /\ step = 1
  /\ \E a \in WalkAdmins, b \in ActingAdmins : assignCase(WalkCase, a, b)
  /\ step' = 2

WalkAssignPanelists ==
  /\ step = 2
  /\ \E ids \in [1..2 -> WalkPanelists], b \in ActingAdmins :
       assignPanelists(WalkCase, ids, b)
  /\ step' = 3

WalkOwnerUpdate ==
  /\ step = 3
  /\ updateCase(WalkCase, StatusPatch("closed"), Ctx(cases[WalkCase].createdBy, "client", Undef))
  /\ step' = 4

WalkAdminUpdate ==
  /\ step = 4
  /\ \E u \in {x \in Users : x.role = "admin"} : updateCase(WalkCase, StatusPatch("closed"), u)
  /\ step' = 5

NextWalk ==
  /\ UNCHANGED <<messages, mlast, now, calls, base, session>>
  /\ \/ WalkCreate
     \/ WalkAssignCase
     \/ WalkAssignPanelists
     \/ WalkOwnerUpdate
     \/ WalkAdminUpdate

SpecWalk == Init /\ [][NextWalk]_vars

\* ------------------------------------------------------- resolutionProgress
\* the service calls whose payload carries resolutionProgress, with the
\* assignments: createCase with and without it, updateCase with it by every
\* caller, assignCase, assignPanelists with one id
ProgressDatas == {EmptyPatch} \cup {ProgressPatch(rp) : rp \in ProgressValues}
ProgressIds == {<<"P1">>}

NextProgress ==
  /\ UNCHANGED <<step, messages, mlast, now, calls, base, session>>
  /\ \/ \E k \in CaseIds, d \in ProgressDatas, u \in ClientIds : createCase(k, d, u)
     \/ \E k \in CaseIds, a \in AdminIds, b \in ActingAdmins : assignCase(k, a, b)
     \/ \E k \in CaseIds, ids \in ProgressIds, b \in ActingAdmins : assignPanelists(k, ids, b)
     \/ \E k \in CaseIds, u \in Users, rp \in ProgressValues :
          updateCase(k, ProgressPatch(rp), u)

SpecProgress == Init /\ [][NextProgress]_vars

\* --------------------------------------------------- requests running at once
AllIdle == \A p \in Procs : calls[p].pc = "idle"
AllDone == \A p \in Procs : calls[p].pc = "done"
NumDone == Cardinality({p \in Procs : calls[p].pc = "done"})
Snapshot == [cases |-> cases, messages |-> messages, now |-> now]

\* --- two assignPanelists requests on one case, on a store whose write puts
\* the whole document in place of the stored one
RaceCase == "k1"
LostIds == { <<"P1">>, <<"P2">>, <<"P1", "P2">> }

\* caseData.save() on a store that writes the whole document: the stored
\* document becomes the one in memory
saveWholeDocument(stored, doc) == doc

\* the case is created, and may hold an entry, before the requests arrive
LostSetup ==
  /\ AllIdle
  /\ UNCHANGED <<step, messages, mlast, now, calls, base, session>>
  /\ \/ createCase(RaceCase, EmptyPatch, "c1")
     \/ /\ Exists(RaceCase)
        /\ cases[RaceCase].assignedPanelists = <<>>
        /\ assignPanelists(RaceCase, <<"P1">>, "a1")

\* the two requests arrive
LostBegin(idsA, idsB) ==
  /\ AllIdle
  /\ Exists(RaceCase)
  /\ calls' = [ p \in Procs |->
                  ACall("assignPanelists", "find", RaceCase, "a1", Null,
                        IF p = "A" THEN idsA ELSE idsB, <<>>, 0) ]
  /\ base' = Snapshot
  /\ UNCHANGED <<cases, last, step, messages, mlast, now, session>>

\* CaseService.assignPanelists: caseRepo.findById(caseId)
assignPanelists_find(p) ==
  /\ calls[p].op = "assignPanelists"
  /\ calls[p].pc = "find"
  /\ IF Exists(calls[p].caseId)
       THEN /\ calls' = [calls EXCEPT ![p].pc = "save", ![p].local = <<cases[calls[p].caseId]>>]
            /\ UNCHANGED last
       ELSE /\ calls' = [calls EXCEPT ![p].pc = "done"]
            /\ last' = Call("assignPanelists", calls[p].caseId, Ctx(calls[p].who, "admin", Undef),
                            "NotFound", EmptyPatch, Null, calls[p].panelistIds, <<>>)
  /\ UNCHANGED <<cases, step, messages, mlast, now, base, session>>

\* CaseService.assignPanelists: the push on the document read, and its save
assignPanelists_save(p) ==
  /\ calls[p].op = "assignPanelists"
  /\ calls[p].pc = "save"
  /\ LET k == calls[p].caseId
         caseData == pushPanelists(calls[p].local[1], calls[p].panelistIds, calls[p].who)
     IN /\ cases' = Store(k, saveWholeDocument(cases[k], caseData))
        /\ last' = Call("assignPanelists", k, Ctx(calls[p].who, "admin", Undef), "ok",
                        EmptyPatch, Null, calls[p].panelistIds, <<caseData>>)
  /\ calls' = [calls EXCEPT ![p].pc = "done", ![p].order = NumDone + 1]
  /\ UNCHANGED <<step, messages, mlast, now, base, session>>

NextLost ==
  \/ LostSetup
  \/ \E idsA \in LostIds, idsB \in LostIds : LostBegin(idsA, idsB)
  \/ \E p \in Procs : assignPanelists_find(p)
  \/ \E p \in Procs : assignPanelists_save(p)

SpecLost == Init /\ [][NextLost]_vars

\* --- markAsRead and assignCase requests on one message and one case
RaceMsg == "m1"
RaceCalls ==
  { ACall("markAsRead", "find", Null, u, RaceMsg, <<>>, <<>>, 0) : u \in {"c1", "u1"} }
    \cup
  { ACall("assignCase", "update", RaceCase, a, Null, <<>>, <<>>, 0) : a \in {"a1", "a2"} }

\* the case and the message, addressed to c1 and u1, are created before the
\* requests arrive
RaceSetup ==
  /\ AllIdle
  /\ \/ /\ createCase(RaceCase, EmptyPatch, "c1")
        /\ UNCHANGED <<step, messages, mlast, now, calls, base, session>>
     \/ /\ Exists(RaceCase)
        /\ messages = [m \in {} |-> Null]
        /\ createMessage(MessageData(RaceCase, <<"c1", "u1">>), Ctx("a1", "admin", Undef))
        /\ UNCHANGED <<cases, last, step, calls, base, session>>

\* the two requests arrive
RaceBegin(cA, cB) ==
  /\ AllIdle
  /\ Exists(RaceCase)
  /\ RaceMsg \in DOMAIN messages
  /\ calls' = [p \in Procs |-> IF p = "A" THEN cA ELSE cB]
  /\ base' = Snapshot
  /\ UNCHANGED <<cases, last, step, messages, mlast, now, session>>

\* MessageRepository.markAsRead: Message.findById(messageId)
markAsRead_find(p) ==
  /\ calls[p].op = "markAsRead"
  /\ calls[p].pc = "find"
  /\ IF calls[p].msgId \in DOMAIN messages
       THEN /\ calls' = [calls EXCEPT ![p].pc = "save", ![p].local = <<messages[calls[p].msgId]>>]
            /\ UNCHANGED mlast
       ELSE /\ calls' = [calls EXCEPT ![p].pc = "done"]
            /\ mlast' = MCall("markMessageAsRead", calls[p].msgId, calls[p].who, "NotFound",
                              <<>>, 0, <<>>, <<>>)
  /\ UNCHANGED <<cases, last, step, messages, now, base, session>>

\* MessageRepository.markAsRead: message.markAsRead(userId), that is the
\* method on the document read, and its save
markAsRead_save(p) ==
  /\ calls[p].op = "markAsRead"
  /\ calls[p].pc = "save"
  /\ now <= MaxClock
  /\ LET m == calls[p].msgId
         read == calls[p].local[1]
         message == saveModified(messages[m], read, Message_markAsRead(read, calls[p].who, now))
     IN /\ messages' = [messages EXCEPT ![m] = message]
        /\ mlast' = MCall("markMessageAsRead", m, calls[p].who, "ok", <<>>, 0, <<>>,
                          <<message>>)
  /\ now' = now + 1
  /\ calls' = [calls EXCEPT ![p].pc = "done", ![p].order = NumDone + 1]
  /\ UNCHANGED <<cases, last, step, base, session>>

\* CaseService.assignCase: its one findByIdAndUpdate
assignCase_update(p) ==
  /\ calls[p].op = "assignCase"
  /\ calls[p].pc = "update"
  /\ assignCase(calls[p].caseId, calls[p].who, "a1")
  /\ calls' = [calls EXCEPT ![p].pc = "done", ![p].order = NumDone + 1]
  /\ UNCHANGED <<step, messages, mlast, now, base, session>>

NextRace ==
  \/ RaceSetup
  \/ \E cA \in RaceCalls, cB \in RaceCalls : RaceBegin(cA, cB)
  \/ \E p \in Procs : markAsRead_find(p)
  \/ \E p \in Procs : markAsRead_save(p)
  \/ \E p \in Procs : assignCase_update(p)

SpecRace == Init /\ [][NextRace]_vars

\* one request run alone, from start to end, on the collections st at the
\* clock reading st.now
RunAlone(st, c) ==
  IF c.op = "markAsRead"
    THEN [ cases |-> st.cases,
           messages |-> IF c.msgId \in DOMAIN st.messages
                          THEN [ st.messages EXCEPT
                                   ![c.msgId] = Message_markAsRead(@, c.who, st.now) ]
                          ELSE st.messages,
           now |-> IF c.msgId \in DOMAIN st.messages THEN st.now + 1 ELSE st.now ]
    ELSE [ cases |-> IF c.caseId \in DOMAIN st.cases
                       THEN [ st.cases EXCEPT
                                ![c.caseId] =
                                  findByIdAndUpdate(@,
                                    [EmptyPatch EXCEPT !.fields = {"assignedTo", "status"},
                                                       !.assignedTo = c.who,
                                                       !.status = "assigned"]) ]
                       ELSE st.cases,
           messages |-> st.messages,
           now |-> st.now ]

\* the collections after the two requests ran one after the other, in each
\* of the two orders
SerialOutcomes ==
  { RunAlone(RunAlone(base, calls[o[1]]), calls[o[2]]) :
      o \in {x \in Procs \X Procs : x[1] # x[2]} }

\* ------------------------------------------------------------------ listings
\* CaseService.listCases: the filter on the caller's role. A query on the
\* dotted paths of an array without $elemMatch is met by a document in which
\* some entry meets the first condition and some entry, the same or another,
\* meets the second
RoleFilter(c, user) ==
  IF user.role = "client" THEN c.createdBy = user.id
  ELSE IF user.role = "panelist"
    THEN /\ \E i \in 1..Len(c.assignedPanelists) :
              c.assignedPanelists[i].panelist = user.panelistId
         /\ \E j \in 1..Len(c.assignedPanelists) :
              c.assignedPanelists[j].status = "active"
  ELSE TRUE

\* CaseService.listCases: if (status) filter.status = status
StatusFilter(c, status) == status \notin {Null, Undef} => c.status = status

\* the ids of the documents Case.find(filter) and Case.countDocuments(filter) match
MatchingCases(store, user, status) ==
  {k \in DOMAIN store : RoleFilter(store[k], user) /\ StatusFilter(store[k], status)}

\* sort({createdAt: sortOrder === 'asc' ? 1 : -1}) of the documents with the
\* ids S: every order of S that the sort allows, documents with one createdAt
\* coming in either order
SortedCases(store, S, sortOrder) ==
  { s \in [1..Cardinality(S) -> S] :
      /\ \A i, j \in 1..Cardinality(S) : i # j => s[i] # s[j]
      /\ \A i, j \in 1..Cardinality(S) :
           i < j => IF sortOrder = "asc"
                      THEN store[s[i]].createdAt <= store[s[j]].createdAt
                      ELSE store[s[i]].createdAt >= store[s[j]].createdAt }

\* skip((page - 1) * limit).limit(limit) of the sequence s
Skip(s, page, limit) == SubSeq(s, (page - 1) * limit + 1, Min(Len(s), page * limit))

\* CaseService.listCases defaults
CaseDefaultLimit == 10
DefaultSortOrder == "desc"

\* CaseService.listCases({user, page, limit, status, sortOrder}), sortBy left
\* to its default createdAt; the type of a case is not part of the documents
\* modelled, so the type filter is never given
listCases(user, page, limit, status, sortOrder) ==
  /\ UNCHANGED cases
  /\ \E s \in SortedCases(cases, MatchingCases(cases, user, status), sortOrder) :
       last' = ListCall("listCases", Null, user, "ok",
                        [status |-> status, sortOrder |-> sortOrder],
                        Skip(s, page, limit),
                        Pagination(Cardinality(MatchingCases(cases, user, status)),
                                   page, limit))

\* CaseRepository.getStatsByStatus: $group {_id: '$status', count: {$sum: 1}}
StatusGroups_perCase(store) ==
  { [_id |-> store[k].status, count |-> 1] : k \in DOMAIN store }
StatusGroups(store) ==
  { [_id |-> st, count |-> Cardinality({k \in DOMAIN store : store[k].status = st})] :
      st \in {store[k].status : k \in DOMAIN store} }

\* CaseRepository.getStatsByStatus: $sort {count: -1} of the groups, groups
\* of one count coming in either order
getStatsByStatus(store) ==
  LET G == StatusGroups(store)
  IN { s \in [1..Cardinality(G) -> G] :
         /\ \A i, j \in 1..Cardinality(G) : i # j => s[i] # s[j]
         /\ \A i, j \in 1..Cardinality(G) : i < j => s[i].count >= s[j].count }

\* CaseService.getDashboardStats(user): byStatus; the type of a case is not
\* part of the documents modelled, so byType is left out
getDashboardStats(user) ==
  /\ UNCHANGED cases
  /\ \E byStatus \in getStatsByStatus(cases) :
       last' = [ Call("getDashboardStats", Null, user, "ok", EmptyPatch, Null, <<>>, <<>>)
                   EXCEPT !.stats = byStatus ]

\* ------------------------------------------------------------- paged reads
\* two cases of one client and the messages of the first case, listed page by
\* page
MaxPage == 2
MaxLimit == 2
Pages == 1..MaxPage
Limits == 1..MaxLimit
PageCaseIds == {"k1", "k2"}
PageCase == "k1"
PageOwner == "c1"
PageAdmin == Ctx("a1", "admin", Undef)
PageClient == Ctx("c1", "client", Undef)
PageReader == "u1"

NextPage ==
  \/ /\ UNCHANGED <<step, messages, mlast, now, calls, base, session>>
     /\ \/ \E k \in PageCaseIds : createCase(k, EmptyPatch, PageOwner)
        \/ \E page \in Pages, limit \in Limits :
             listCases(PageClient, page, limit, Undef, DefaultSortOrder)
        \/ \E page \in Pages, limit \in Limits :
             getMessagesByCase(PageCase, PageAdmin, page, limit)
  \/ /\ UNCHANGED <<cases, last, step, calls, base, session>>
     /\ \/ createMessage(MessageData(PageCase, <<"c1", "u1">>), PageAdmin)
        \/ \E m \in MsgIds : deleteMessage(m, PageAdmin)
        \/ getUnreadCount(PageReader)
        \/ \E page \in Pages, limit \in Limits : getUnreadMessages(PageReader, page, limit)
        \/ \E limit \in Limits : getRecentMessages(limit)

SpecPage == Init /\ [][NextPage]_vars

\* --------------------------------------------------------- listed cases
\* two cases of two clients, panels assigned to them and entries of the panels
\* set to removed by an admin, listed and counted for each caller
ListCaseIds == {"k1", "k2"}
ListAdmin == Ctx("a1", "admin", Undef)
ListUsers ==
  { Ctx("c1", "client", Undef), Ctx("c2", "client", Undef), ListAdmin,
    Ctx("u1", "panelist", "P1") }
ListPanel == <<"P1", "P2">>
ListStatuses == {Undef, "panel_assigned"}
ListPatches(cur) ==
  {StatusPatch("closed")} \cup {PanelPatch(ap) : ap \in PanelLists(cur) \ {<<>>}}

NextList ==
  /\ UNCHANGED <<step, messages, mlast, now, calls, base, session>>
  /\ \/ \E k \in ListCaseIds, d \in CaseDatas, u \in ClientIds : createCase(k, d, u)
     \/ \E k \in ListCaseIds : assignPanelists(k, ListPanel, ListAdmin.id)
     \/ \E k \in ListCaseIds :
          \E p \in ListPatches(StoredList(k)) : updateCase(k, p, ListAdmin)
     \/ \E u \in ListUsers, st \in ListStatuses :
          listCases(u, DefaultPage, CaseDefaultLimit, st, DefaultSortOrder)
     \/ \E u \in ListUsers : getDashboardStats(u)

SpecList == Init /\ [][NextList]_vars

\* ------------------------------------------------------- every operation
\* every operation of the two services on one case and its messages, each
\* with one caller
AllCase == "k1"
AllOwner == "c1"
AllAdmin == Ctx("a1", "admin", Undef)
AllWorker == "a2"
AllReader == "u1"
AllPanel == <<"P1">>
AllPatches == {StatusPatch("closed"), PanelPatch(<<>>)}
RecentDefaultLimit == 10

NextAll ==
  \/ /\ UNCHANGED <<step, messages, mlast, now, calls, base, session>>
     /\ \/ createCase(AllCase, EmptyPatch, AllOwner)
        \/ getCaseById(AllCase, AllAdmin)
        \/ \E p \in AllPatches : updateCase(AllCase, p, AllAdmin)
        \/ assignCase(AllCase, AllWorker, AllAdmin.id)
        \/ assignPanelists(AllCase, AllPanel, AllAdmin.id)
        \/ listCases(AllAdmin, DefaultPage, CaseDefaultLimit, Undef, DefaultSortOrder)
        \/ getDashboardStats(AllAdmin)
        \/ getMessagesByCase(AllCase, AllAdmin, DefaultPage, DefaultLimit)
  \/ /\ UNCHANGED <<cases, last, step, calls, base, session>>
     /\ \/ createMessage(MessageData(AllCase, <<"c1", "u1">>), AllAdmin)
        \/ \E m \in MsgIds : markMessageAsRead(m, AllReader)
        \/ bulkMarkAsRead(<<"m1", "m2">>, AllReader)
        \/ \E m \in MsgIds : deleteMessage(m, AllAdmin)
        \/ getUnreadCount(AllReader)
        \/ getUnreadMessages(AllReader, DefaultPage, DefaultLimit)
        \/ getRecentMessages(RecentDefaultLimit)

SpecAll == Init /\ [][NextAll]_vars

\* --- assignCase, assignPanelists and updateCase requests on one case
JointIds == <<"P2">>
JointPanelist == Ctx("u1", "panelist", "P1")
JointOwner == Ctx("c1", "client", Undef)
JointAdmin == Ctx("a1", "admin", Undef)
JointProgress == ProgressPatch([total |-> 1, submitted |-> 1])

\* the requests: an assignCase, an assignPanelists, an updateCase of the
\* progress by the assigned panelist or by the owner, and an updateCase by an
\* admin that sets the panelist's entry to removed or gives the case to c2
JointCalls ==
  { ACall("assignCase", "update", RaceCase, "a2", Null, <<>>, <<>>, 0),
    ACall("assignPanelists", "find", RaceCase, "a1", Null, JointIds, <<>>, 0),
    UCall(RaceCase, JointPanelist, JointProgress),
    UCall(RaceCase, JointOwner, JointProgress),
    UCall(RaceCase, JointAdmin,
          PanelPatch(<<[panelist |-> "P1", assignedBy |-> "a1", status |-> "removed"]>>)),
    UCall(RaceCase, JointAdmin, CreatedByPatch("c2")) }

\* variant of the save that writes the whole document in memory
saveModifiedCase_whole(stored, read, doc, pushed) == doc

\* caseData.save() of mongoose after assignPanelists: the update holds the
\* modified paths only, $push for the entries pushed on assignedPanelists
\* and $set for status if the assignment changed it
saveModifiedCase(stored, read, doc, pushed) ==
  [ stored EXCEPT !.assignedPanelists = @ \o pushed,
                  !.status = IF doc.status # read.status THEN doc.status ELSE @ ]

\* the case is created by c1 and P1 assigned to it before the requests arrive
JointSetup ==
  /\ AllIdle
  /\ UNCHANGED <<step, messages, mlast, now, calls, base, session>>
  /\ \/ createCase(RaceCase, EmptyPatch, "c1")
     \/ /\ Exists(RaceCase)
        /\ cases[RaceCase].assignedPanelists = <<>>
        /\ assignPanelists(RaceCase, <<"P1">>, "a1")

\* the two requests arrive
JointBegin(cA, cB) ==
  /\ AllIdle
  /\ Exists(RaceCase)
  /\ cases[RaceCase].assignedPanelists # <<>>
  /\ calls' = [p \in Procs |-> IF p = "A" THEN cA ELSE cB]
  /\ base' = Snapshot
  /\ UNCHANGED <<cases, last, step, messages, mlast, now, session>>

\* CaseService.assignPanelists: the push on the document read, and its save
\* by mongoose
assignPanelists_saveModified(p) ==
  /\ calls[p].op = "assignPanelists"
  /\ calls[p].pc = "save"
  /\ LET k == calls[p].caseId
         read == calls[p].local[1]
         caseData == pushPanelists(read, calls[p].panelistIds, calls[p].who)
         pushed == newPanelists(calls[p].panelistIds, calls[p].who)
     IN /\ cases' = Store(k, saveModifiedCase(cases[k], read, caseData, pushed))
        /\ last' = Call("assignPanelists", k, Ctx(calls[p].who, "admin", Undef), "ok",
                        EmptyPatch, Null, calls[p].panelistIds, <<caseData>>)
  /\ calls' = [calls EXCEPT ![p].pc = "done", ![p].order = NumDone + 1]
  /\ UNCHANGED <<step, messages, mlast, now, base, session>>

\* CaseService.updateCase: caseRepo.findById(caseId), the 404 test and
\* _checkCaseAccess on the document read
updateCase_find(p) ==
  /\ calls[p].op = "updateCase"
  /\ calls[p].pc = "find"
  /\ LET k == calls[p].caseId
         user == calls[p].user
     IN IF ~Exists(k)
          THEN /\ calls' = [calls EXCEPT ![p].pc = "done"]
               /\ last' = Call("updateCase", k, user, "NotFound", EmptyPatch, Null, <<>>, <<>>)
          ELSE LET access == CaseService_checkCaseAccess(cases[k], user)
               IN IF access = "allow"
                    THEN /\ calls' = [calls EXCEPT ![p].pc = "write", ![p].local = <<cases[k]>>]
                         /\ UNCHANGED last
                    ELSE /\ calls' = [calls EXCEPT ![p].pc = "done"]
                         /\ last' = Call("updateCase", k, user, access, EmptyPatch, Null,
                                         <<>>, <<>>)
  /\ UNCHANGED <<cases, step, messages, mlast, now, base, session>>

\* CaseService.updateCase: the restricted fields taken out and
\* caseRepo.updateById(caseId, updateData), a findByIdAndUpdate by _id alone
updateCase_write(p) ==
  /\ calls[p].op = "updateCase"
  /\ calls[p].pc = "write"
  /\ LET k == calls[p].caseId
         user == calls[p].user
         updatedCase == findByIdAndUpdate(cases[k], StripRestricted(calls[p].patch, user))
     IN /\ cases' = Store(k, updatedCase)
        /\ last' = Call("updateCase", k, user, "ok", calls[p].patch, Null, <<>>,
                        <<updatedCase>>)
  /\ calls' = [calls EXCEPT ![p].pc = "done", ![p].order = NumDone + 1]
  /\ UNCHANGED <<step, messages, mlast, now, base, session>>

NextJoint ==
  \/ JointSetup
  \/ \E cA \in JointCalls, cB \in JointCalls : JointBegin(cA, cB)
  \/ \E p \in Procs : assignCase_update(p)
  \/ \E p \in Procs : assignPanelists_find(p)
  \/ \E p \in Procs : assignPanelists_saveModified(p)
  \/ \E p \in Procs : updateCase_find(p)
  \/ \E p \in Procs : updateCase_write(p)

SpecJoint == Init /\ [][NextJoint]_vars

\* ------------------------------------------------------------ auth contexts
\* isAuthenticated of a context: !!user, !!panelistUser, !!adminUser
IsAuthenticated(c) == session.user[c] # Null

\* login of a context: the user is put in memory and in sessionStorage
login(c) ==
  /\ session.pc[c] \in {"idle", "finished"}
  /\ session.user[c] = Null
  /\ session' = [ session EXCEPT !.user[c] = AuthUser(c),
                                 !.storage = @ \cup StorageKeys(c),
                                 !.pc[c] = "idle",
                                 !.result[c] = "none" ]

\* logout of a context is called: the request to the backend is sent
logout_request(c) ==
  /\ session.pc[c] = "idle"
  /\ session' = [session EXCEPT !.pc[c] = "awaiting"]

\* the outcome of the backend request, as a result value
Outcome(ok) == IF ok THEN "ok" ELSE "failed"

\* AuthProvider.logout once the request has succeeded (ok) or failed: catch
\* logs, finally does setUser(null) and removeItem('user_info')
AuthProvider_logout(ok) ==
  /\ session.pc["client"] = "awaiting"
  /\ session' = [ session EXCEPT !.user["client"] = Null,
                                 !.storage = @ \ {"user_info"},
                                 !.pc["client"] = "finished",
                                 !.result["client"] = Outcome(ok) ]

\* PanelistAuthProvider.logout once the request has succeeded or failed:
\* finally sets panelistUser and panelistInfo to null and removes both keys
PanelistAuthProvider_logout(ok) ==
  /\ session.pc["panelist"] = "awaiting"
  /\ session' = [ session EXCEPT !.user["panelist"] = Null,
                                 !.storage = @ \ {"panelistUser", "panelistInfo"},
                                 !.pc["panelist"] = "finished",
                                 !.result["panelist"] = Outcome(ok) ]

\* variant that clears sessionStorage only when the request succeeded
adminAuthService_logout_onSuccess(ok) ==
  /\ session.pc["admin"] = "awaiting"
  /\ session' = [ session EXCEPT !.storage = IF ok THEN @ \ {"admin_user"} ELSE @,
                                 !.pc["admin"] = "serviceDone",
                                 !.result["admin"] = Outcome(ok) ]

\* adminAuthService.logout once the request has succeeded or failed: catch
\* logs, finally does removeItem('admin_user'); the promise resolves
adminAuthService_logout(ok) ==
  /\ session.pc["admin"] = "awaiting"
  /\ session' = [ session EXCEPT !.storage = @ \ {"admin_user"},
                                 !.pc["admin"] = "serviceDone",
                                 !.result["admin"] = Outcome(ok) ]

\* AdminAuthProvider.logout after await adminAuthService.logout():
\* setAdminUser(null)
AdminAuthProvider_logout ==
  /\ session.pc["admin"] = "serviceDone"
  /\ session' = [session EXCEPT !.user["admin"] = Null, !.pc["admin"] = "finished"]

NextAuth ==
  /\ UNCHANGED <<cases, last, step, messages, mlast, now, calls, base>>
  /\ \/ \E c \in AuthContexts : login(c)
     \/ \E c \in AuthContexts : logout_request(c)
     \/ \E ok \in BOOLEAN : AuthProvider_logout(ok)
     \/ \E ok \in BOOLEAN : PanelistAuthProvider_logout(ok)
     \/ \E ok \in BOOLEAN : adminAuthService_logout(ok)
     \/ AdminAuthProvider_logout

SpecAuth == Init /\ [][NextAuth]_vars

\* ===================================================================== claims
GuardedOps == {"getCaseById", "updateCase", "getMessagesByCase"}
KnownRoles == {"admin", "client", "panelist"}

\* the records the guard of CaseService is handed for a stored document: the
\* document itself (updateCase) and its populated copy (getCaseById)
GuardViews(k) == {cases[k], findByIdWithDetails(cases[k])}

\* Rank(s): position of status s in the lifecycle order
Rank(s) == CHOOSE i \in 1..Len(Statuses) : Statuses[i] = s

ActiveEntries(c, p) ==
  {i \in 1..Len(c.assignedPanelists) :
     c.assignedPanelists[i].panelist = p /\ c.assignedPanelists[i].status = "active"}

C2_Iff ==
  \A k \in DOMAIN cases : \A u \in Users :
    u.role = "panelist" =>
      (CaseService_checkCaseAccess(cases[k], u) = "allow"
         <=> ActiveEntries(cases[k], u.panelistId) # {})

C2_RemovedStep ==
  \A k \in DOMAIN cases : \A u \in Users :
    ( /\ u.role = "panelist"
      /\ k \in DOMAIN cases'
      /\ \E i \in ActiveEntries(cases[k], u.panelistId) :
           cases'[k].assignedPanelists =
             [cases[k].assignedPanelists EXCEPT ![i].status = "removed"] )
    => CaseService_checkCaseAccess(cases'[k], u) # "allow"

C2_ActivePanelistOnly == []C2_Iff /\ [][C2_RemovedStep]_vars

\* C3: a user whose role is none of admin, client, panelist is denied:
\* getCaseById, updateCase and getMessagesByCase by such a user on an existing
\* case end in Forbidden.
C3_UnknownRoleDenied ==
  ( /\ last.op \in GuardedOps
    /\ last.user.role \notin KnownRoles
    /\ last.outcome # "NotFound" )
  => last.outcome = "Forbidden"

\* C4: an admin is allowed on every case, whatever createdBy and
\* assignedPanelists are; no guarded call by an admin ends in Forbidden.
C4_AdminAlwaysAllowed ==
  /\ \A k \in DOMAIN cases : \A u \in Users : \A c \in GuardViews(k) :
       u.role = "admin" => CaseService_checkCaseAccess(c, u) = "allow"
  /\ (last.op \in GuardedOps /\ last.user.role = "admin" /\ Exists(last.caseId))
       => last.outcome = "ok"

C4_Witness ==
  /\ last.op = "getCaseById"
  /\ last.user.role = "admin"
  /\ last.outcome = "ok"
  /\ cases[last.caseId].createdBy # last.user.id
  /\ cases[last.caseId].assignedPanelists # <<>>

\* C5: an updateCase by a non-admin that passes the guard leaves status,
\* assignedTo, assignedPanelists and priority as they were, whatever the
\* patch carries for them.
C5_Step ==
  (last'.op = "updateCase" /\ last'.user.role # "admin" /\ last'.outcome = "ok")
    => LET k == last'.caseId IN
         /\ cases'[k].status = cases[k].status
         /\ cases'[k].assignedTo = cases[k].assignedTo
         /\ cases'[k].assignedPanelists = cases[k].assignedPanelists
         /\ cases'[k].priority = cases[k].priority

C5_RestrictedFieldsKept == [][C5_Step]_vars

\* C6: the walk-through gives, after each call in turn: open; assigned with
\* assignedTo the admin passed; panel_assigned with exactly two entries, both
\* active; still panel_assigned; closed.
NumActive(c) ==
  Cardinality({i \in 1..Len(c.assignedPanelists) : c.assignedPanelists[i].status = "active"})

C6_Walk ==
  /\ step = 1 => cases[WalkCase].status = "open"
  /\ step = 2 => /\ cases[WalkCase].status = "assigned"
                 /\ cases[WalkCase].assignedTo = last.adminId
  /\ step = 3 => /\ cases[WalkCase].status = "panel_assigned"
                 /\ Len(cases[WalkCase].assignedPanelists) = 2
                 /\ NumActive(cases[WalkCase]) = 2
  /\ step = 4 => /\ cases[WalkCase].status = "panel_assigned"
                 /\ last.outcome = "ok"
  /\ step = 5 => /\ cases[WalkCase].status = "closed"
                 /\ last.outcome = "ok"

C6_Witness ==
  /\ step = 5
  /\ cases[WalkCase].status = "closed"
  /\ NumActive(cases[WalkCase]) = 2

\* C7: every change of a case's status that is not made by an updateCase of
\* an admin moves the status exactly one position forward in the lifecycle.
C7_Step ==
  \A k \in DOMAIN cases :
    ( /\ cases'[k].status # cases[k].status
      /\ ~(last'.op = "updateCase" /\ last'.user.role = "admin") )
    => Rank(cases'[k].status) = Rank(cases[k].status) + 1

C7_OneStepForward == [][C7_Step]_vars

\* C8: a case whose status is closed keeps status closed in every later step.
C8_Step ==
  \A k \in DOMAIN cases : cases[k].status = "closed" => cases'[k].status = "closed"

C8_ClosedTerminal == [][C8_Step]_vars

\* C9: no case holds two active entries of one panelist.
C9_OneActivePerPanelist ==
  \A k \in DOMAIN cases : \A p \in PanelistIds :
    Cardinality(ActiveEntries(cases[k], p)) <= 1

\* C10: a successful assignPanelists with k ids leaves the list k entries
\* longer, the old entries unchanged in front, the new entries active and in
\* the order of the ids, and the status panel_assigned.
C10_Step ==
  (last'.op = "assignPanelists" /\ last'.outcome = "ok")
    => LET k == last'.caseId
           old == cases[k].assignedPanelists
           new == cases'[k].assignedPanelists
           ids == last'.panelistIds
       IN /\ Len(new) = Len(old) + Len(ids)
          /\ SubSeq(new, 1, Len(old)) = old
          /\ \A j \in 1..Len(ids) :
               /\ new[Len(old) + j].panelist = ids[j]
               /\ new[Len(old) + j].status = "active"
               /\ new[Len(old) + j].assignedBy = last'.user.id
          /\ cases'[k].status = "panel_assigned"

C10_AppendsInOrder == [][C10_Step]_vars

C10_Witness ==
  /\ last.op = "assignPanelists"
  /\ last.outcome = "ok"
  /\ Len(last.panelistIds) = 2
  /\ last.panelistIds[1] # last.panelistIds[2]
  /\ cases[last.caseId].status = "panel_assigned"

\* C11: assignedPanelists is append-only: every step keeps every entry of
\* every stored list at its position, with only its status possibly changed.
C11_Step ==
  \A k \in DOMAIN cases :
    LET old == cases[k].assignedPanelists
        new == cases'[k].assignedPanelists
    IN /\ Len(new) >= Len(old)
       /\ \A i \in 1..Len(old) :
            /\ new[i].panelist = old[i].panelist
            /\ new[i].assignedBy = old[i].assignedBy

C11_AppendOnly == [][C11_Step]_vars

\* C14: createdBy is immutable after creation: a createCase stores the
\* clientId it was passed as createdBy, and no later step changes the
\* createdBy of a stored case.
C14_Step ==
  /\ \A k \in DOMAIN cases : cases'[k].createdBy = cases[k].createdBy
  /\ last'.op = "createCase" => cases'[last'.caseId].createdBy = last'.user.id

C14_CreatedByImmutable == [][C14_Step]_vars

\* C15: every stored case has 0 <= resolutionProgress.submitted <=
\* resolutionProgress.total, whatever createCase and updateCase were sent.
C15_ProgressInRange ==
  \A k \in DOMAIN cases :
    /\ 0 <= cases[k].resolutionProgress.submitted
    /\ cases[k].resolutionProgress.submitted <= cases[k].resolutionProgress.total

\* C16: resolutionProgress.submitted never decreases, a new case starts with
\* submitted 0, and no createCase, assignCase, assignPanelists or updateCase
\* of a client changes it.
C16_Step ==
  /\ \A k \in DOMAIN cases :
       /\ cases'[k].resolutionProgress.submitted >= cases[k].resolutionProgress.submitted
       /\ ( \/ last'.op \in {"createCase", "assignCase", "assignPanelists"}
            \/ (last'.op = "updateCase" /\ last'.user.role = "client") )
          => cases'[k].resolutionProgress.submitted = cases[k].resolutionProgress.submitted
  /\ \A k \in DOMAIN cases' \ DOMAIN cases : cases'[k].resolutionProgress.submitted = 0

C16_SubmittedMonotone == [][C16_Step]_vars

\* the recipients entries of message m that are addressed to user u
EntriesOf(store, m, u) ==
  {i \in 1..Len(store[m].recipients) : store[m].recipients[i].userId = u}

\* C17: markAsRead is idempotent: on every stored message, for every user, a
\* second markAsRead leaves the recipients as the first left them; and a
\* markMessageAsRead that repeats the call before it succeeds and leaves every
\* recipient entry (isRead and readAt) as it was.
C17_Twice ==
  \A m \in DOMAIN messages : \A u \in Readers :
    LET once == Message_markAsRead(messages[m], u, now)
        twice == Message_markAsRead(once, u, now + 1)
    IN twice.recipients = once.recipients

C17_Step ==
  ( /\ mlast.op = "markMessageAsRead"
    /\ mlast.outcome = "ok"
    /\ mlast'.op = "markMessageAsRead"
    /\ mlast'.msgId = mlast.msgId
    /\ mlast'.userId = mlast.userId
    /\ now' # now )
  => /\ mlast'.outcome = "ok"
     /\ messages'[mlast.msgId].recipients = messages[mlast.msgId].recipients

C17_MarkAsReadIdempotent == []C17_Twice /\ [][C17_Step]_vars

\* a recipient's entry is read since before the last save of the message,
\* which a markMessageAsRead of that recipient made
C17_Witness ==
  /\ mlast.op = "markMessageAsRead"
  /\ mlast.outcome = "ok"
  /\ \E i \in EntriesOf(messages, mlast.msgId, mlast.userId) :
       /\ messages[mlast.msgId].recipients[i].isRead
       /\ messages[mlast.msgId].recipients[i].readAt < messages[mlast.msgId].updatedAt
       /\ messages[mlast.msgId].updatedAt = now - 1

\* C18: markMessageAsRead of an existing message by a user who has no
\* recipient entry in it succeeds, returns the message and leaves every
\* recipient entry as it was; on a message id that is not stored it ends in
\* NotFound and leaves every stored message as it was.
C18_Step ==
  mlast'.op = "markMessageAsRead"
  => LET m == mlast'.msgId
         u == mlast'.userId
     IN /\ (m \in DOMAIN messages /\ EntriesOf(messages, m, u) = {})
             => /\ mlast'.outcome = "ok"
                /\ messages'[m].recipients = messages[m].recipients
                /\ mlast'.data = <<messages'[m]>>
                /\ \A x \in DOMAIN messages \ {m} : messages'[x] = messages[x]
        /\ m \notin DOMAIN messages
             => /\ mlast'.outcome = "NotFound"
                /\ messages' = messages

C18_NoEntryNoChange == [][C18_Step]_vars

C18_Witness ==
  /\ mlast.op = "markMessageAsRead"
  /\ mlast.outcome = "ok"
  /\ EntriesOf(messages, mlast.msgId, mlast.userId) = {}
  /\ Len(messages[mlast.msgId].recipients) = 2
  /\ messages[mlast.msgId].updatedAt = now - 1
  /\ messages[mlast.msgId].updatedAt > messages[mlast.msgId].createdAt

\* C19: a markMessageAsRead by a recipient r of a message with several
\* recipients, all unread, lowers getUnreadCount(r) by exactly 1 and leaves
\* getUnreadCount of every other recipient as it was.
C19_Step ==
  ( /\ mlast'.op = "markMessageAsRead"
    /\ mlast'.outcome = "ok"
    /\ now' # now
    /\ Len(messages[mlast'.msgId].recipients) >= 2
    /\ \A i \in 1..Len(messages[mlast'.msgId].recipients) :
         /\ ~messages[mlast'.msgId].recipients[i].isRead
         /\ messages[mlast'.msgId].recipients[i].userId \in Readers
    /\ EntriesOf(messages, mlast'.msgId, mlast'.userId) # {} )
  => /\ Message_getUnreadCount(messages', mlast'.userId)
          = Message_getUnreadCount(messages, mlast'.userId) - 1
     /\ \A o \in Readers \ {mlast'.userId} :
          EntriesOf(messages, mlast'.msgId, o) # {}
            => Message_getUnreadCount(messages', o) = Message_getUnreadCount(messages, o)

C19_CountDropsByOne == [][C19_Step]_vars

\* C20: when every stored message is addressed to users only, a user who is
\* a recipient and whose entries are read in every stored message, because
\* the user's markMessageAsRead or bulkMarkAsRead calls marked them, has
\* getUnreadCount 0, whatever the entries of the other recipients are.
C20_AllMarkedCountZero ==
  \A u \in Readers :
    ( /\ mlast.op \in {"markMessageAsRead", "bulkMarkAsRead"}
      /\ mlast.userId = u
      /\ \E m \in DOMAIN messages : EntriesOf(messages, m, u) # {}
      /\ \A m \in DOMAIN messages : \A i \in 1..Len(messages[m].recipients) :
           messages[m].recipients[i].userId \in Readers
      /\ \A m \in DOMAIN messages : \A i \in EntriesOf(messages, m, u) :
           messages[m].recipients[i].isRead )
    => Message_getUnreadCount(messages, u) = 0

\* the request that wrote n-th
Writer(n) == CHOOSE p \in Procs : calls[p].order = n

\* both requests read the case before either wrote it
BothReadFirst ==
  \A p \in Procs :
    /\ calls[p].local # <<>>
    /\ calls[p].local[1].assignedPanelists = base.cases[RaceCase].assignedPanelists

C13_Serializable ==
  ( /\ AllDone
    /\ \A p \in Procs : calls[p].op \in {"markAsRead", "assignCase"} )
  => [cases |-> cases, messages |-> messages, now |-> now] \in SerialOutcomes

\* C30: an assignCase on a stored case sets assignedTo to the adminId passed
\* and status to assigned and leaves createdBy, priority, assignedPanelists
\* and resolutionProgress as they were; on an id that is not stored it ends
\* in NotFound and the collection is as it was.
C30_Step ==
  last'.op = "assignCase" /\ (last' # last \/ cases' # cases)
  => LET k == last'.caseId IN
       IF k \in DOMAIN cases
         THEN /\ last'.outcome = "ok"
              /\ DOMAIN cases' = DOMAIN cases
              /\ cases'[k] = [cases[k] EXCEPT !.assignedTo = last'.adminId,
                                              !.status = "assigned"]
              /\ last'.data = <<cases'[k]>>
         ELSE /\ last'.outcome = "NotFound"
              /\ cases' = cases

C30_AssignCaseFrame == [][C30_Step]_vars

C30_Witness ==
  /\ last.op = "assignCase"
  /\ last.outcome = "ok"
  /\ cases[last.caseId].assignedTo = last.adminId
  /\ cases[last.caseId].status = "assigned"
  /\ cases[last.caseId].assignedPanelists # <<>>
  /\ cases[last.caseId].createdBy = "c2"

\* C24: every createMessage on a stored case stores a message whose sender is
\* the caller's role, id, panelistId (null if the caller has none) and name,
\* whatever sender the payload carries; on a case that is not stored it ends
\* in NotFound and the collection is as it was.
C24_Step ==
  mlast'.op = "createMessage" /\ (now' # now \/ mlast' # mlast)
  => IF mlast'.payload.case \in DOMAIN cases
       THEN LET m == mlast'.msgId
                caller == mlast'.user
            IN /\ mlast'.outcome = "ok"
               /\ DOMAIN messages' = DOMAIN messages \cup {m}
               /\ m \notin DOMAIN messages
               /\ messages'[m].sender.userType = caller.role
               /\ messages'[m].sender.userId = caller.id
               /\ messages'[m].sender.panelistId =
                    (IF caller.panelistId = Undef THEN Null ELSE caller.panelistId)
               /\ messages'[m].sender.name = NameOf(caller.id)
       ELSE /\ mlast'.outcome = "NotFound"
            /\ messages' = messages

C24_SenderFromCaller == [][C24_Step]_vars

C24_Witness ==
  /\ mlast.op = "createMessage"
  /\ mlast.outcome = "ok"
  /\ "sender" \in mlast.payload.fields
  /\ mlast.payload.sender.userId # mlast.user.id
  /\ messages[mlast.msgId].sender.userId = mlast.user.id
  /\ messages[mlast.msgId].sender.userType = "client"

\* C25: a createMessage stores a message only when the access guard allows
\* the caller on the referenced case.
C25_Step ==
  (mlast'.op = "createMessage" /\ messages' # messages)
  => MessageService_checkCaseAccess(cases[mlast'.payload.case], mlast'.user) = "allow"

C25_OnlyParticipantsCreate == [][C25_Step]_vars

\* C22: a deleteMessage of a stored message by an admin or by the user whose
\* id is sender.userId sets isDeleted on it and changes nothing else; by any
\* other user it ends in Forbidden and the collection is as it was; on an id
\* that is not stored it ends in NotFound.
C22_Step ==
  mlast'.op = "deleteMessage" /\ (mlast' # mlast \/ messages' # messages)
  => LET m == mlast'.msgId
         user == mlast'.user
     IN IF m \notin DOMAIN messages
          THEN mlast'.outcome = "NotFound" /\ messages' = messages
          ELSE IF user.role = "admin" \/ user.id = messages[m].sender.userId
            THEN /\ mlast'.outcome = "ok"
                 /\ messages' = [messages EXCEPT ![m].isDeleted = TRUE]
            ELSE /\ mlast'.outcome = "Forbidden"
                 /\ messages' = messages

C22_DeleteBySenderOrAdmin == [][C22_Step]_vars

C22_Witness ==
  /\ mlast.op = "deleteMessage"
  /\ mlast.outcome = "ok"
  /\ mlast.user.role = "admin"
  /\ messages[mlast.msgId].sender.userId # mlast.user.id
  /\ messages[mlast.msgId].isDeleted

\* C21: a bulkMarkAsRead(ids, u) leaves the recipients of every stored
\* message as one markAsRead(id, u) for each id of ids leaves them: unread
\* entries of u in those messages become read, read entries of u keep isRead
\* and readAt, every other entry and every other message is as it was.
C21_Step ==
  (mlast'.op = "bulkMarkAsRead" /\ now' # now)
  => \A m \in DOMAIN messages :
       messages'[m].recipients =
         IF \E n \in 1..Len(mlast'.messageIds) : mlast'.messageIds[n] = m
           THEN Message_markAsRead(messages[m], mlast'.userId, now).recipients
           ELSE messages[m].recipients

C21_BulkAsEach == [][C21_Step]_vars

\* C26: no step changes the number of recipient entries of a stored message,
\* their order or the user an entry is addressed to, and the message stays
\* stored; a markMessageAsRead by user u changes no entry but those of u.
C26_Step ==
  \A m \in DOMAIN messages :
    /\ m \in DOMAIN messages'
    /\ Len(messages'[m].recipients) = Len(messages[m].recipients)
    /\ \A i \in 1..Len(messages[m].recipients) :
         /\ messages'[m].recipients[i].userId = messages[m].recipients[i].userId
         /\ (mlast'.op = "markMessageAsRead" /\ messages[m].recipients[i].userId # mlast'.userId)
              => messages'[m].recipients[i] = messages[m].recipients[i]
         /\ mlast'.op = "deleteMessage"
              => messages'[m].recipients[i] = messages[m].recipients[i]

C26_RecipientsFixed == [][C26_Step]_vars

C26_Witness ==
  /\ mlast.op = "markMessageAsRead"
  /\ mlast.outcome = "ok"
  /\ mlast.userId = "u1"
  /\ messages[mlast.msgId].isDeleted
  /\ Len(messages[mlast.msgId].recipients) = 2
  /\ messages[mlast.msgId].recipients[1].userId = "c1"
  /\ ~messages[mlast.msgId].recipients[1].isRead
  /\ messages[mlast.msgId].recipients[2].isRead

\* the documents of `store` that are not soft-deleted
Live(store) == [m \in {x \in DOMAIN store : store[x].isDeleted = FALSE} |-> store[m]]

\* C23: a soft-deleted message is excluded from every read: whenever
\* getUnreadCount, getUnreadMessages or getMessagesByCase returns, no id it
\* lists is that of a soft-deleted message, and the count or total it returns
\* is what it would be if the soft-deleted messages were not stored at all,
\* whatever the recipient entries of those messages say
C23_Step ==
  /\ (mlast' # mlast /\ mlast'.op \in {"getUnreadCount", "getUnreadMessages"})
       => /\ mlast'.count = Message_getUnreadCount(Live(messages'), mlast'.userId)
          /\ \A i \in 1..Len(mlast'.list) : messages'[mlast'.list[i]].isDeleted = FALSE
  /\ (last' # last /\ last'.op = "getMessagesByCase" /\ last'.outcome = "ok")
       => /\ last'.pagination.total = countByCase(Live(messages'), last'.caseId)
          /\ \A i \in 1..Len(last'.list) : messages'[last'.list[i]].isDeleted = FALSE
C23_DeletedExcluded == [][C23_Step]_vars

\* a message with an unread entry of the reader has been soft-deleted, and
\* the listing of its case and the reader's unread listing have both left it out
C23_Witness ==
  /\ \E m \in DOMAIN messages :
       /\ messages[m].isDeleted
       /\ messages[m].case = PageCase
       /\ \E i \in 1..Len(messages[m].recipients) :
            /\ messages[m].recipients[i].userId = PageReader
            /\ messages[m].recipients[i].isRead = FALSE
  /\ mlast.op = "getUnreadMessages" /\ mlast.userId = PageReader
  /\ mlast.count = 0 /\ mlast.list = <<>>
  /\ last.op = "getMessagesByCase" /\ last.outcome = "ok"
  /\ last.pagination.total = 0 /\ last.list = <<>>

\* the sequence L holds what stands at the offsets (page-1)*limit up to
\* page*limit-1 of the sequence s, counted from 0
AtOffsets(L, s, page, limit) ==
  /\ Len(L) = Cardinality({o \in ((page - 1) * limit)..(page * limit - 1) : o < Len(s)})
  /\ \A i \in 1..Len(L) : L[i] = s[(page - 1) * limit + i]

\* p.total is n, and p.pages is the least number of pages of p.limit records
\* that hold n records
PagesFor(p, n, page, limit) ==
  /\ p.total = n /\ p.page = page /\ p.limit = limit
  /\ p.pages >= 0
  /\ p.pages * limit >= n
  /\ p.pages > 0 => (p.pages - 1) * limit < n

\* C28: every call of listCases, getMessagesByCase and getUnreadMessages with
\* page >= 1 and limit >= 1 returns the records at the offsets (page-1)*limit
\* up to page*limit-1 of the matching set in sorted order, total is the size
\* of that matching set and pages is ceil(total/limit)
C28_Step ==
  /\ (last' # last /\ last'.op = "listCases")
       => LET M == MatchingCases(cases', last'.user, last'.query.status)
              p == last'.pagination
          IN /\ \E s \in SortedCases(cases', M, last'.query.sortOrder) :
                  AtOffsets(last'.list, s, p.page, p.limit)
             /\ p.page >= 1 /\ p.limit >= 1
             /\ PagesFor(p, Cardinality(M), p.page, p.limit)
  /\ (last' # last /\ last'.op = "getMessagesByCase" /\ last'.outcome = "ok")
       => LET M == {m \in DOMAIN messages' : InCase(messages'[m], last'.caseId)}
              p == last'.pagination
          IN /\ AtOffsets(last'.list, SortByCreatedAtAsc(messages', M), p.page, p.limit)
             /\ p.page >= 1 /\ p.limit >= 1
             /\ PagesFor(p, Cardinality(M), p.page, p.limit)
  /\ (mlast' # mlast /\ mlast'.op = "getUnreadMessages")
       => LET M == {m \in DOMAIN messages' : Unread(messages'[m], mlast'.userId)}
              p == mlast'.pagination
          IN /\ AtOffsets(mlast'.list, SortByCreatedAtDesc(messages', M), p.page, p.limit)
             /\ p.page >= 1 /\ p.limit >= 1
             /\ PagesFor(p, Cardinality(M), p.page, p.limit)
             /\ mlast'.count = Cardinality(M)
C28_Pagination == [][C28_Step]_vars

\* the second page of one record each has been asked of two stored cases and
\* of two unread messages: each call returned one record, total 2 and pages 2,
\* the unread listing the older message
C28_Witness ==
  /\ last.op = "listCases" /\ last.user.role = "client"
  /\ last.pagination = [total |-> 2, page |-> 2, limit |-> 1, pages |-> 2]
  /\ Len(last.list) = 1
  /\ mlast.op = "getUnreadMessages"
  /\ mlast.pagination = [total |-> 2, page |-> 2, limit |-> 1, pages |-> 2]
  /\ mlast.list = <<"m1">>

\* the case holds an entry for the panelist of the user with status active
HoldsActiveEntry(c, user) ==
  \E i \in 1..Len(c.assignedPanelists) :
    /\ c.assignedPanelists[i].panelist = user.panelistId
    /\ c.assignedPanelists[i].status = "active"

\* C27: listCases returns to a client only cases whose createdBy is the
\* client's id, to a panelist only cases that hold an entry for that same
\* panelist with status active, and to an admin all the cases that match the
\* status filter
C27_Step ==
  (last' # last /\ last'.op = "listCases")
    => LET u == last'.user
           L == {last'.list[i] : i \in 1..Len(last'.list)}
       IN /\ u.role = "client" => \A k \in L : cases'[k].createdBy = u.id
          /\ u.role = "panelist" => \A k \in L : HoldsActiveEntry(cases'[k], u)
          /\ u.role = "admin"
               => L = {k \in DOMAIN cases' : StatusFilter(cases'[k], last'.query.status)}
C27_ListByRole == [][C27_Step]_vars

RECURSIVE SumCounts(_)
SumCounts(g) == IF g = <<>> THEN 0 ELSE g[1].count + SumCounts(Tail(g))

\* C29: whatever the collection holds and whoever the user is, the counts of
\* byStatus add up to the number of stored cases, no two groups have the same
\* status, and the count of each group is the number of stored cases with
\* its status, so that the groups are fixed by the collection alone
C29_Step ==
  (last' # last /\ last'.op = "getDashboardStats")
    => LET g == last'.stats
       IN /\ SumCounts(g) = Cardinality(DOMAIN cases')
          /\ \A i, j \in 1..Len(g) : i # j => g[i]._id # g[j]._id
          /\ \A i \in 1..Len(g) :
               g[i].count = Cardinality({k \in DOMAIN cases' : cases'[k].status = g[i]._id})
C29_StatsAddUp == [][C29_Step]_vars

\* a panelist has asked for the statistics of two stored cases of two
\* statuses, and got two groups of one case each
C29_Witness ==
  /\ last.op = "getDashboardStats" /\ last.user.role = "panelist"
  /\ Cardinality(DOMAIN cases) = 2
  /\ Len(last.stats) = 2
  /\ last.stats[1].count = 1 /\ last.stats[2].count = 1

\* C31: every createCase stores, under an id not stored before, a case with
\* status open and createdBy the clientId of the call, whatever status and
\* createdBy the data carries, and leaves every case stored before as it was
C31_Step ==
  (last' # last /\ last'.op = "createCase")
    => LET k == last'.caseId
       IN /\ k \notin DOMAIN cases
          /\ DOMAIN cases' = DOMAIN cases \cup {k}
          /\ cases'[k].status = "open"
          /\ cases'[k].createdBy = last'.user.id
          /\ \A x \in DOMAIN cases : cases'[x] = cases[x]
C31_CreateOpenOwned == [][C31_Step]_vars

\* a second case has been created by c1 from data that carries status closed
\* and createdBy c2, next to a case that is no longer open
C31_Witness ==
  /\ last.op = "createCase"
  /\ last.patch.fields = {"status", "createdBy"}
  /\ last.patch.status = "closed" /\ last.patch.createdBy = "c2"
  /\ last.user.id = "c1"
  /\ cases[last.caseId].status = "open" /\ cases[last.caseId].createdBy = "c1"
  /\ \E x \in DOMAIN cases : x # last.caseId /\ cases[x].status = "panel_assigned"

\* the operations that look a case up by its id before anything else
LookupOps == {"getCaseById", "updateCase", "assignPanelists", "getMessagesByCase"}

\* C32: getCaseById, updateCase, assignPanelists and getMessagesByCase on an
\* id that is not stored end in NotFound whatever the role of the caller, and
\* an updateCase or getMessagesByCase that ends in NotFound or Forbidden
\* leaves both collections as they were
C32_Step ==
  /\ (last' # last /\ last'.op \in LookupOps /\ last'.caseId \notin DOMAIN cases)
       => last'.outcome = "NotFound"
  /\ ( /\ last' # last
       /\ last'.op \in {"updateCase", "getMessagesByCase"}
       /\ last'.outcome \in {"NotFound", "Forbidden"} )
       => (cases' = cases /\ messages' = messages)
C32_NotFoundFirst == [][C32_Step]_vars

\* a caller who is neither admin nor owner has asked to update a case that is
\* not stored, and got NotFound
C32_Witness ==
  /\ last.op = "updateCase"
  /\ last.user.role = "caseworker"
  /\ ~Exists(last.caseId)
  /\ last.outcome = "NotFound"

\* the documents of `store` with the ids of L come oldest first in L
OldestFirst(store, L) ==
  \A i, j \in 1..Len(L) : i < j => store[L[i]].createdAt < store[L[j]].createdAt

\* the documents of `store` with the ids of L come newest first in L
NewestFirst(store, L) ==
  \A i, j \in 1..Len(L) : i < j => store[L[i]].createdAt > store[L[j]].createdAt

\* C34: getMessagesByCase returns messages of the case that are not deleted,
\* oldest first; getUnreadMessages and getRecentMessages return messages
\* newest first
C34_Step ==
  /\ (last' # last /\ last'.op = "getMessagesByCase" /\ last'.outcome = "ok")
       => /\ OldestFirst(messages', last'.list)
          /\ \A i \in 1..Len(last'.list) :
               /\ messages'[last'.list[i]].case = last'.caseId
               /\ messages'[last'.list[i]].isDeleted = FALSE
  /\ (mlast' # mlast /\ mlast'.op \in {"getUnreadMessages", "getRecentMessages"})
       => NewestFirst(messages', mlast'.list)
C34_ListingOrder == [][C34_Step]_vars

\* two messages are stored; the thread of the case has listed the older one
\* first and the recent messages have listed the newer one first
C34_Witness ==
  /\ last.op = "getMessagesByCase" /\ last.list = <<"m1", "m2">>
  /\ mlast.op = "getRecentMessages" /\ mlast.list = <<"m2", "m1">>
  /\ messages["m1"].createdAt < messages["m2"].createdAt

\* C33: no step of any case or message operation takes a stored case or a
\* stored message out of its collection, and no step sets isDeleted of a
\* message back to false
C33_Step ==
  /\ DOMAIN cases \subseteq DOMAIN cases'
  /\ DOMAIN messages \subseteq DOMAIN messages'
  /\ \A m \in DOMAIN messages : messages[m].isDeleted => messages'[m].isDeleted
C33_NeverRemoved == [][C33_Step]_vars

\* a message was soft-deleted and then marked as read by a recipient, the
\* case was updated since, and both are still stored, the message as deleted
C33_Witness ==
  /\ mlast.op = "markMessageAsRead" /\ mlast.outcome = "ok"
  /\ mlast.msgId \in DOMAIN messages
  /\ messages[mlast.msgId].isDeleted
  /\ last.op = "updateCase" /\ last.outcome = "ok"
  /\ Exists(last.caseId)

\* C39: no step sets a recipient entry that is read back to unread; an entry
\* that markMessageAsRead or bulkMarkAsRead turns from unread to read gets a
\* readAt that is not null; and markMessageAsRead leaves the readAt of an
\* entry that was already read as it was
C39_Step ==
  \A m \in DOMAIN messages :
    /\ m \in DOMAIN messages'
    /\ Len(messages'[m].recipients) = Len(messages[m].recipients)
    /\ \A i \in 1..Len(messages[m].recipients) :
         LET old == messages[m].recipients[i]
             new == messages'[m].recipients[i]
         IN /\ old.isRead => new.isRead
            /\ (~old.isRead /\ new.isRead) => new.readAt # NoDate
            /\ (old.isRead /\ mlast'.op = "markMessageAsRead") => new.readAt = old.readAt
C39_ReadMonotone == [][C39_Step]_vars

\* a user has marked a message as read a second time, after the clock has
\* moved on: the entry is read and still carries the readAt of the first time
C39_Witness ==
  /\ mlast.op = "markMessageAsRead" /\ mlast.outcome = "ok"
  /\ mlast.msgId \in DOMAIN messages
  /\ \E i \in 1..Len(messages[mlast.msgId].recipients) :
       LET e == messages[mlast.msgId].recipients[i]
       IN /\ e.userId = mlast.userId
          /\ e.isRead
          /\ e.readAt # NoDate
          /\ e.readAt + 1 < now
  /\ \A i \in 1..Len(messages[mlast.msgId].recipients) :
       messages[mlast.msgId].recipients[i].userId # mlast.userId
         => ~messages[mlast.msgId].recipients[i].isRead

\* C37: the guard of CaseService and the guard of MessageService give the
\* same outcome on every record for every user, and a user is allowed by
\* getCaseById, which hands its guard the populated copy of the case, exactly
\* when the user is allowed by getMessagesByCase, which hands its guard the
\* stored document
C37_SameAccess ==
  \A k \in DOMAIN cases : \A u \in Users :
    /\ \A c \in GuardViews(k) :
         CaseService_checkCaseAccess(c, u) = MessageService_checkCaseAccess(c, u)
    /\ CaseService_checkCaseAccess(findByIdWithDetails(cases[k]), u) = "allow"
         <=> MessageService_checkCaseAccess(cases[k], u) = "allow"

\* a user context with role panelist and no panelistId
NoPanelistId(u) == u.role = "panelist" /\ u.panelistId = Undef

\* C38: for a panelist whose context has no panelistId, both guards end in
\* Forbidden on every stored case, and every guarded call by such a user on a
\* stored case ends in Forbidden
C38_NoIdForbidden ==
  /\ \A k \in DOMAIN cases : \A u \in Users : \A c \in GuardViews(k) :
       NoPanelistId(u)
         => /\ CaseService_checkCaseAccess(c, u) = "Forbidden"
            /\ MessageService_checkCaseAccess(c, u) = "Forbidden"
  /\ (last.op \in GuardedOps /\ NoPanelistId(last.user) /\ last.outcome # "NotFound")
       => last.outcome = "Forbidden"

\* C35: when an assignCase and an assignPanelists request on one case have
\* both ended, in whatever order their steps ran, assignedTo is the admin of
\* the assignCase and assignedPanelists is the list from before the requests
\* followed by the entries of the assignPanelists
C35_KeepsBoth ==
  \A p, q \in Procs :
    (AllDone /\ calls[p].op = "assignCase" /\ calls[q].op = "assignPanelists")
      => /\ cases[RaceCase].assignedTo = calls[p].who
         /\ cases[RaceCase].assignedPanelists =
              base.cases[RaceCase].assignedPanelists
                \o newPanelists(calls[q].panelistIds, calls[q].who)

\* assignPanelists read the case while assignedTo was still null, assignCase
\* wrote in between, and the save of assignPanelists came last
C35_Witness ==
  \E p, q \in Procs :
    /\ AllDone
    /\ calls[p].op = "assignCase" /\ calls[p].order = 1
    /\ calls[q].op = "assignPanelists" /\ calls[q].order = 2
    /\ calls[q].local[1].assignedTo = Null
    /\ cases[RaceCase].assignedTo = "a2"
    /\ Len(cases[RaceCase].assignedPanelists) = 2

\* C36: an updateCase of a user who is not an admin writes only when the
\* user passes the guard on the case as it is stored at the moment of the
\* write
C36_Step ==
  \A p \in Procs :
    ( /\ calls[p].op = "updateCase"
      /\ calls[p].user.role # "admin"
      /\ calls[p].pc = "write"
      /\ calls'[p].pc = "done" )
      => CaseService_checkCaseAccess(cases[calls[p].caseId], calls[p].user) = "allow"
C36_GuardAtWrite == [][C36_Step]_vars

\* C40: in each of the client, panelist and admin contexts, when logout has
\* finished the user in memory is null, so isAuthenticated is false, and the
\* context's keys are gone from sessionStorage, whether the backend request
\* succeeded or failed
C40_LogoutClears ==
  \A c \in AuthContexts :
    session.pc[c] = "finished"
      => /\ ~IsAuthenticated(c)
         /\ StorageKeys(c) \cap session.storage = {}
         /\ session.result[c] \in {"ok", "failed"}

\* the three logouts have finished, the requests of the client and of the
\* admin context having failed and that of the panelist context succeeded
C40_Witness ==
  /\ \A c \in AuthContexts : session.pc[c] = "finished"
  /\ session.result["client"] = "failed"
  /\ session.result["admin"] = "failed"
  /\ session.result["panelist"] = "ok"
  /\ session.storage = {}
  /\ \A c \in AuthContexts : ~IsAuthenticated(c)
====
